---- MODULE Spec2Model ----
(***************************************************************************)
(* Model of the dissolve compression engine and its worker-thread          *)
(* orchestration: ThreadManager (thread count policy, chunkFiles,          *)
(* processFiles, createWorker message handlers, cleanup), the worker       *)
(* runtime (compressionWorker.processChunk), the fragmenter                *)
(* (splitLargeImagesIntoFragments) and the target-size search of           *)
(* ImageCompressor (binarySearchQuality, optimizePNG).                     *)
(***************************************************************************)
EXTENDS Integers, Sequences, FiniteSets, TLC

VARIABLES
    totalCores,   \* os.cpus().length
    options,      \* ThreadManager options: threads (0 = absent), ultrafast, forceThreads
    threadCount,  \* ThreadManager.threadCount
    files,        \* the task list handed to chunkFiles / processFiles
    fileMeta,     \* per input file: what fs.stat and sharp metadata report
    filesToProcess, \* processFiles' list after optional fragmentation
    chunks,       \* the WorkChunks chunkFiles returned
    pc,           \* position of the running operation (processFiles)
    workers,      \* ThreadManager.workers: handles of the spawned workers
    wk,           \* worker runtime, per spawned worker: position, item index, results
    port,         \* per worker: every event posted to the pool, in posting order
    rcv,          \* per worker: how many events of port the pool has consumed
    promise,      \* per chunk: state of the promise createWorker returned
    terminated,   \* workers on which terminate() has been called
    results,      \* the BatchResult object under construction
    thrown,       \* the error processFiles rejects with
    search,       \* ImageCompressor's target-size compression of one image
    sem,          \* the bounded-concurrency loop: counter, cap, per-file position
    tm,           \* a ThreadManager built from raw option values: threads as given
    job,          \* ImageCompressor.compress of one file path without targetSize
    api,          \* the top-level compress(input, options) call
    mgr           \* one ThreadManager serving two overlapping processFiles calls

tmVars == <<totalCores, options, threadCount, search, sem, tm, job, api, mgr>>
poolVars == <<workers, wk, port, rcv, promise, terminated, results, thrown>>
vars == <<totalCores, options, threadCount, files, fileMeta, filesToProcess,
          chunks, pc, workers, wk, port, rcv, promise, terminated,
          results, thrown, search, sem, tm, job, api, mgr>>

(***************************************************************************)
(* Bounds of the model.                                                    *)
(***************************************************************************)
MaxCores == 2
MaxThreadsOption == 33
MaxChunkFiles == 6

(***************************************************************************)
(* Arithmetic helpers (Math.min, Math.max, Math.ceil of a quotient).       *)
(***************************************************************************)
Min(a, b) == IF a <= b THEN a ELSE b
Max(a, b) == IF a >= b THEN a ELSE b
CeilDiv(a, b) == (a + b - 1) \div b
\* Math.ceil(x * 1.5) for an integer x >= 0
CeilTimesOneAndHalf(x) == (3 * x + 1) \div 2

\* Array.prototype.slice(start, end) on a 0-based array held as a 1-based sequence
Slice(s, start, end) == SubSeq(s, start + 1, end)

RECURSIVE Concat(_)
Concat(ss) == IF ss = <<>> THEN <<>> ELSE Head(ss) \o Concat(Tail(ss))

\* a whole-file task (a path); fragments carry fragmentIndex >= 0
WholeFile(f) == [file |-> f, fragmentIndex |-> -1, totalFragments |-> 0,
                 top |-> 0, height |-> 0]

\* the option values and task lists the specifications draw from
OptionValues ==
    [threads : 0..MaxThreadsOption, ultrafast : BOOLEAN, forceThreads : BOOLEAN]

FileList(n) == [i \in 1..n |-> WholeFile(i)]

(***************************************************************************)
(* ThreadManager.calculateOptimalThreads                                   *)
(***************************************************************************)
MinThreads == 2
MaxThreads == 32

\* the branch taken with a threads option: baseThreads is parseInt(threads)
threadsFromOption(baseThreads, ultrafast) ==
    IF ultrafast
    THEN Max(MinThreads, Min(CeilTimesOneAndHalf(baseThreads), MaxThreads))
    ELSE Max(MinThreads, Min(baseThreads, MaxThreads))

\* the branches taken without one
threadsFromCores(cores, ultrafast) ==
    IF ultrafast
    THEN Max(MinThreads, Min(cores * 2, MaxThreads))
    ELSE Max(MinThreads, Min(CeilTimesOneAndHalf(cores), MaxThreads))

\* for options whose threads is a non-negative integer, 0 standing for absent
calculateOptimalThreads(cores, opts) ==
    IF opts.threads # 0
    THEN threadsFromOption(opts.threads, opts.ultrafast)
    ELSE threadsFromCores(cores, opts.ultrafast)

\* options.threads as the caller gave it: absent, a number or a numeric
\* string in halves (5 halves = 2.5), or a text that is not a number
Truthy(raw) ==
    CASE raw.kind = "absent"  -> FALSE
      [] raw.kind = "number"  -> raw.halves # 0
      [] raw.kind = "numeral" -> TRUE
      [] raw.kind = "text"    -> TRUE

\* parseInt: the integer part, toward zero; NaN for a text without digits
parseInt(raw) ==
    IF raw.kind \in {"number", "numeral"}
    THEN [nan |-> FALSE,
          value |-> (IF raw.halves < 0 THEN -1 ELSE 1)
                        * ((IF raw.halves < 0 THEN 0 - raw.halves ELSE raw.halves) \div 2)]
    ELSE [nan |-> TRUE, value |-> 0]

\* calculateOptimalThreads on raw options; Math.min and Math.max of NaN are NaN
resolveThreadCount(cores, raw, ultrafast) ==
    IF Truthy(raw)
    THEN IF parseInt(raw).nan
         THEN [nan |-> TRUE, value |-> 0]
         ELSE [nan |-> FALSE, value |-> threadsFromOption(parseInt(raw).value, ultrafast)]
    ELSE [nan |-> FALSE, value |-> threadsFromCores(cores, ultrafast)]

\* calculateOptimalThreads assigns this.threadCount; this.options stays the
\* object the caller passed, with the threads value as given
optionsWithResolvedCount(raw, resolved) ==
    IF resolved.nan THEN raw ELSE [kind |-> "number", halves |-> 2 * resolved.value]

optionsAfterResolve(raw, resolved) == raw

\* { ...this.options, ...options }: a key of the second object, when present,
\* replaces the first object's
spreadValue(first, second) ==
    IF second.kind # "absent" THEN second ELSE first

\* parseInt(options.quality) || 85
resolveQuality(raw) ==
    IF parseInt(raw).nan \/ parseInt(raw).value = 0
    THEN 85
    ELSE parseInt(raw).value

(***************************************************************************)
(* ThreadManager.chunkFiles                                                *)
(***************************************************************************)
filesPerWorkerFloor(n, tc) == n \div tc

filesPerWorkerPlusOne(n, tc) == CeilDiv(n, tc) + 1

filesPerWorker(n, tc) == CeilDiv(n, tc)

RECURSIVE chunkLoop(_, _, _, _, _)
chunkLoop(fs, tc, fpw, i, acc) ==
    IF i < tc /\ i * fpw < Len(fs)
    THEN LET start == i * fpw
             end   == Min(start + fpw, Len(fs))
             chunk == Slice(fs, start, end)
         IN  chunkLoop(fs, tc, fpw, i + 1,
                       IF Len(chunk) > 0
                       THEN Append(acc, [files |-> chunk, workerIndex |-> i])
                       ELSE acc)
    ELSE acc

chunkFiles(fs, tc) == chunkLoop(fs, tc, filesPerWorker(Len(fs), tc), 0, <<>>)

(***************************************************************************)
(* Fragmenter: splitLargeImagesIntoFragments.  A file's metadata is what   *)
(* path.extname, fs.stat and sharp(file).metadata() report for it.  A      *)
(* fragment's buffer is the band of rows [top, top + height) extracted.    *)
(***************************************************************************)
MIN_FRAGMENT_SIZE == 100 * 1024 * 1024
MIN_FRAGMENTS == 2

SmallImage == [image |-> TRUE, size |-> MIN_FRAGMENT_SIZE - 1, readable |-> TRUE,
               height |-> 1, width |-> 1]

fragmentHeightOf(imageHeight, fragments) ==
    IF imageHeight \div fragments = 0 THEN imageHeight ELSE imageHeight \div fragments

fragmentsOf(f, imageHeight, fragments) ==
    LET fragmentHeight == fragmentHeightOf(imageHeight, fragments)
    IN  [k \in 1..fragments |->
            LET i   == k - 1
                top == i * fragmentHeight
            IN  [file |-> f, fragmentIndex |-> i, totalFragments |-> fragments,
                 top |-> top,
                 height |-> IF i = fragments - 1 THEN imageHeight - top
                                                 ELSE fragmentHeight]]

fragmentCountNoMinimum(tc) == tc

fragmentCount(tc) == Max(MIN_FRAGMENTS, tc)

\* the files whose metadata splitLargeImagesIntoFragments reads
readsMetadata(m) == m.image /\ m.size >= MIN_FRAGMENT_SIZE

splitOne(task, m, tc) ==
    IF ~m.image THEN <<task>>
    ELSE IF m.size < MIN_FRAGMENT_SIZE THEN <<task>>
    ELSE IF m.height = 0 \/ m.width = 0 THEN <<task>>
    ELSE fragmentsOf(task.file, m.height, fragmentCount(tc))

RECURSIVE splitLargeImagesIntoFragments(_, _, _)
splitLargeImagesIntoFragments(fs, meta, tc) ==
    IF fs = <<>> THEN <<>>
    ELSE splitOne(Head(fs), meta[Head(fs).file], tc)
             \o splitLargeImagesIntoFragments(Tail(fs), meta, tc)

(***************************************************************************)
(* State of the pool before processFiles runs.                             *)
(***************************************************************************)
NoError == [kind |-> "none", worker |-> -1]
EmptyResults == [processed |-> 0, errors |-> <<>>, totalSizeReduction |-> 0,
                 files |-> <<>>]

SearchIdle == [pc |-> "idle"]
SemIdle == [pc |-> "idle"]
TmIdle == [pc |-> "idle"]
JobIdle == [pc |-> "idle"]
ApiIdle == [pc |-> "idle"]
MgrIdle == [pc |-> "idle"]

PoolIdle ==
    /\ search = SearchIdle
    /\ sem = SemIdle
    /\ tm = TmIdle
    /\ mgr = MgrIdle
    /\ job = JobIdle
    /\ api = ApiIdle
    /\ workers = <<>>
    /\ wk = <<>>
    /\ port = <<>>
    /\ rcv = <<>>
    /\ promise = <<>>
    /\ terminated = {}
    /\ results = EmptyResults
    /\ thrown = NoError

(***************************************************************************)
(* Worker runtime: compressionWorker.processChunk.  A worker is named by   *)
(* the position of its chunk in chunks.  The compressors are external:     *)
(* constructing them may throw, compress may throw, and a result may hold  *)
(* a value postMessage cannot clone.                                       *)
(***************************************************************************)
Outcomes == {"ok", "throw", "unclonable"}

\* originalSize - compressedSize of a task's result
SizeReduction(task) == task.file

SuccessEntry(task, wi, canClone) ==
    [task |-> task, success |-> TRUE, clonable |-> canClone, workerIndex |-> wi]
FailureEntry(task, wi) ==
    [task |-> task, success |-> FALSE, clonable |-> TRUE, workerIndex |-> wi]

ProgressMsg(task, wi) == [type |-> "progress", task |-> task, workerIndex |-> wi]
ErrorMsg(task, wi) == [type |-> "error", task |-> task, workerIndex |-> wi]
CompleteMsg(rs, wi) == [type |-> "complete", results |-> rs, workerIndex |-> wi]
WorkerErrorMsg(wi) == [type |-> "worker_error", workerIndex |-> wi]
ErrorEvent == [type |-> "error_event"]
ExitEvent(code) == [type |-> "exit", code |-> code]

\* one iteration of the for loop: the entries pushed to results and the
\* messages posted
processItemAbortOnThrow(rs, task, outcome, wi) ==
    IF outcome = "ok"
    THEN [results |-> Append(rs, SuccessEntry(task, wi, TRUE)),
          msgs |-> <<ProgressMsg(task, wi)>>, continue |-> TRUE]
    ELSE [results |-> rs, msgs |-> <<WorkerErrorMsg(wi)>>, continue |-> FALSE]

processItemPostsTwice(rs, task, outcome, wi) ==
    IF outcome = "throw"
    THEN [results |-> Append(rs, FailureEntry(task, wi)),
          msgs |-> <<ProgressMsg(task, wi), ErrorMsg(task, wi)>>, continue |-> TRUE]
    ELSE [results |-> Append(rs, SuccessEntry(task, wi, TRUE)),
          msgs |-> <<ProgressMsg(task, wi)>>, continue |-> TRUE]

processItem(rs, task, outcome, wi) ==
    IF outcome = "ok"
    THEN [results |-> Append(rs, SuccessEntry(task, wi, TRUE)),
          msgs |-> <<ProgressMsg(task, wi)>>, continue |-> TRUE]
    ELSE IF outcome = "unclonable"
    THEN \* results.push precedes the postMessage that throws; the catch
         \* pushes a failure entry and posts `error`
         [results |-> Append(Append(rs, SuccessEntry(task, wi, FALSE)),
                             FailureEntry(task, wi)),
          msgs |-> <<ErrorMsg(task, wi)>>, continue |-> TRUE]
    ELSE [results |-> Append(rs, FailureEntry(task, wi)),
          msgs |-> <<ErrorMsg(task, wi)>>, continue |-> TRUE]

terminalMessageAlwaysComplete(rs, wi) == CompleteMsg(rs, wi)

\* the message posted at the end of the chunk: postMessage(complete) throws
\* when the results cannot be cloned and the outer catch posts worker_error
terminalMessage(rs, wi) ==
    IF \A k \in DOMAIN rs : rs[k].clonable
    THEN CompleteMsg(rs, wi)
    ELSE WorkerErrorMsg(wi)


Post(w, m) == [port EXCEPT ![w] = Append(@, m)]

\* for (const file of files): the task of the iteration after idx completed ones
nextTaskFirst(chunk, idx) == chunk.files[1]

nextTask(chunk, idx) == chunk.files[idx + 1]

\* constructing the compressors
WorkerSetup(w) ==
    /\ w \in DOMAIN wk /\ wk[w].pc = "setup"
    /\ \E ok \in BOOLEAN :
          IF ok
          THEN /\ wk' = [wk EXCEPT ![w].pc = "items", ![w].ready = TRUE]
               /\ UNCHANGED port
          ELSE /\ wk' = [wk EXCEPT ![w].pc = "finished"]
               /\ port' = Post(w, WorkerErrorMsg(chunks[w].workerIndex))
    /\ UNCHANGED <<tmVars, files, fileMeta, filesToProcess, chunks, pc, workers, rcv,
                   promise, terminated, results, thrown>>

WorkerItem(w) ==
    /\ w \in DOMAIN wk /\ wk[w].pc = "items"
    /\ wk[w].idx < Len(chunks[w].files)
    /\ \E outcome \in Outcomes :
          LET r == processItem(wk[w].results, nextTask(chunks[w], wk[w].idx),
                               outcome, chunks[w].workerIndex)
          IN  /\ wk' = [wk EXCEPT ![w].results = r.results,
                                  ![w].idx = IF r.continue THEN @ + 1 ELSE @,
                                  ![w].pc = IF r.continue THEN @ ELSE "finished"]
              /\ port' = [port EXCEPT ![w] = @ \o r.msgs]
    /\ UNCHANGED <<tmVars, files, fileMeta, filesToProcess, chunks, pc, workers, rcv,
                   promise, terminated, results, thrown>>

WorkerComplete(w) ==
    /\ w \in DOMAIN wk /\ wk[w].pc = "items"
    /\ wk[w].idx = Len(chunks[w].files)
    /\ wk' = [wk EXCEPT ![w].pc = "finished"]
    /\ port' = Post(w, terminalMessage(wk[w].results, chunks[w].workerIndex))
    /\ UNCHANGED <<tmVars, files, fileMeta, filesToProcess, chunks, pc, workers, rcv,
                   promise, terminated, results, thrown>>

\* processChunk has returned and nothing keeps the thread alive
WorkerExit(w) ==
    /\ w \in DOMAIN wk /\ wk[w].pc = "finished"
    /\ wk' = [wk EXCEPT ![w].pc = "exited"]
    /\ port' = Post(w, ExitEvent(0))
    /\ UNCHANGED <<tmVars, files, fileMeta, filesToProcess, chunks, pc, workers, rcv,
                   promise, terminated, results, thrown>>

\* the worker dies before its thread has ended, while processChunk runs or
\* after it has posted its terminal message: an uncaught error (error event
\* followed by exit code 1) or an exit with a nonzero code
WorkerCrash(w) ==
    /\ w \in DOMAIN wk /\ wk[w].pc \in {"setup", "items", "finished"}
    /\ wk' = [wk EXCEPT ![w].pc = "exited"]
    /\ \E withError \in BOOLEAN :
          port' = [port EXCEPT ![w] =
                      IF withError THEN @ \o <<ErrorEvent, ExitEvent(1)>>
                                   ELSE Append(@, ExitEvent(1))]
    /\ UNCHANGED <<tmVars, files, fileMeta, filesToProcess, chunks, pc, workers, rcv,
                   promise, terminated, results, thrown>>

\* the thread ends with exit code 0 while processChunk has posted no
\* terminal message: process.exit(0) in the thread, or an await that never
\* settles with nothing left to keep the thread's event loop alive
WorkerQuit(w) ==
    /\ w \in DOMAIN wk /\ wk[w].pc \in {"setup", "items"}
    /\ wk' = [wk EXCEPT ![w].pc = "exited"]
    /\ port' = Post(w, ExitEvent(0))
    /\ UNCHANGED <<tmVars, files, fileMeta, filesToProcess, chunks, pc, workers, rcv,
                   promise, terminated, results, thrown>>

(***************************************************************************)
(* Pool side: ThreadManager.processFiles, executeWorkers, createWorker's   *)
(* handlers and cleanup.  A handler runs to completion together with the   *)
(* promise reactions it triggers: Promise.all settling, the catch and the  *)
(* finally of processFiles up to the terminate() calls of cleanup.         *)
(***************************************************************************)
Range(f) == {f[x] : x \in DOMAIN f}

\* the kinds of event of worker w whose handler has run
Delivered(w) == {port[w][k].type : k \in 1..rcv[w]}

Exited(w) == "exit" \in Delivered(w)

\* worker.terminate() on every handle of this.workers: a thread still
\* running is stopped and exits with code 1
IsRunning(w0) == w0.pc \in {"setup", "items", "finished"}

wkAfterTerminate(ws, wk0) ==
    [w \in DOMAIN wk0 |->
        IF w \in Range(ws) /\ IsRunning(wk0[w]) THEN [wk0[w] EXCEPT !.pc = "exited"]
                                                ELSE wk0[w]]

portAfterTerminate(ws, wk0, port0) ==
    [w \in DOMAIN port0 |->
        IF w \in Range(ws) /\ IsRunning(wk0[w]) THEN Append(port0[w], ExitEvent(1))
                                                ELSE port0[w]]

\* the `complete` case of the message handler
mergeCompleteOverwrite(res, rs) ==
    LET ok == SelectSeq(rs, LAMBDA e : e.success)
    IN  [res EXCEPT !.processed = Len(ok),
                    !.files = [k \in 1..Len(ok) |-> ok[k].task]]

RECURSIVE SumReduction(_)
SumReduction(es) ==
    IF es = <<>> THEN 0 ELSE SizeReduction(Head(es).task) + SumReduction(Tail(es))

mergeCompleteCountsFailures(res, rs) ==
    LET ok  == SelectSeq(rs, LAMBDA e : e.success)
        out == SelectSeq(ok, LAMBDA e : e.task.fragmentIndex = -1)
    IN  [res EXCEPT !.processed = @ + Len(rs),
                    !.totalSizeReduction = @ + SumReduction(ok),
                    !.files = @ \o [k \in 1..Len(out) |-> out[k].task]]

mergeComplete(res, rs) ==
    LET ok  == SelectSeq(rs, LAMBDA e : e.success)
        out == SelectSeq(ok, LAMBDA e : e.task.fragmentIndex = -1)
    IN  [res EXCEPT !.processed = @ + Len(ok),
                    !.totalSizeReduction = @ + SumReduction(ok),
                    !.files = @ \o [k \in 1..Len(out) |-> out[k].task]]

\* the message handler's effect on the batch result
onMessage(res, m) ==
    IF m.type = "error"
    THEN [res EXCEPT !.errors = Append(@, [task |-> m.task, worker |-> m.workerIndex])]
    ELSE IF m.type = "complete" THEN mergeComplete(res, m.results)
    ELSE res

\* which events reject the worker's promise
rejectsNoWorkerError(m) ==
    \/ m.type = "error_event"
    \/ m.type = "exit" /\ m.code # 0


rejects(m) ==
    \/ m.type \in {"worker_error", "error_event"}
    \/ m.type = "exit" /\ m.code # 0

settleLastEventWins(p, m) ==
    IF m.type = "complete" THEN "resolved"
    ELSE IF rejects(m) THEN "rejected"
    ELSE p

\* resolve and reject have no effect on a promise that has settled
settle(p, m) ==
    IF p # "pending" THEN p
    ELSE IF m.type = "complete" THEN "resolved"
    ELSE IF rejects(m) THEN "rejected"
    ELSE p

\* Promise.all over the createWorker promises
anyResolved(ps) == \E c \in DOMAIN ps : ps[c] = "resolved"

allResolved(ps) == \A c \in DOMAIN ps : ps[c] = "resolved"

\* cleanup's await of the termination promises
cleanupNotAwaited(ws) == TRUE

cleanupAwaited(ws) == \A k \in DOMAIN ws : Exited(ws[k])

MaxSpawnFailures == 1

\* the routing test of processFiles
SingleThreadLimit == 4

useSingleThreadIgnoringForce(n, forceThreads) == n < SingleThreadLimit

useSingleThread(n, forceThreads) == n < SingleThreadLimit /\ ~forceThreads

ProcessFiles ==
    /\ pc = "constructed"
    /\ IF Len(files) = 0
       THEN /\ pc' = "returned"
            /\ results' = EmptyResults
            /\ UNCHANGED <<filesToProcess, chunks, workers, wk, port, rcv,
                           promise, terminated, thrown>>
       ELSE \* the files of a pool run are below the fragmentation threshold,
            \* so no row band is extracted here
            LET ftp == IF options.forceThreads
                       THEN splitLargeImagesIntoFragments(files, fileMeta, threadCount)
                       ELSE files
            IN  /\ filesToProcess' = ftp
                /\ IF useSingleThread(Len(ftp), options.forceThreads)
                   THEN /\ pc' = "single"
                        /\ results' = EmptyResults
                        /\ UNCHANGED <<chunks, workers, wk, port, rcv,
                                       promise, terminated, thrown>>
                   ELSE LET cs == chunkFiles(ftp, threadCount)
                        IN  \E bad \in SUBSET (1..Len(cs)) :
                              /\ Cardinality(bad) <= MaxSpawnFailures
                              /\ chunks' = cs
                              /\ results' = EmptyResults
                              /\ LET spawned == SelectSeq([k \in 1..Len(cs) |-> k],
                                                          LAMBDA k : k \notin bad)
                                     fresh == [w \in Range(spawned) |->
                                                  [pc |-> "setup", ready |-> FALSE,
                                                   idx |-> 0, results |-> <<>>]]
                                 IN  /\ workers' = spawned
                                     /\ promise' = [c \in 1..Len(cs) |->
                                                      IF c \in bad THEN "rejected"
                                                                   ELSE "pending"]
                                     /\ rcv' = [w \in Range(spawned) |-> 0]
                                     /\ IF bad = {}
                                        THEN /\ pc' = "awaiting"
                                             /\ wk' = fresh
                                             /\ port' = [w \in Range(spawned) |-> <<>>]
                                             /\ UNCHANGED <<terminated, thrown>>
                                        ELSE \* Promise.all rejects at once
                                             /\ pc' = "cleanup"
                                             /\ thrown' = [kind |-> "spawn",
                                                 worker |-> cs[CHOOSE c \in bad :
                                                     \A d \in bad : c <= d].workerIndex]
                                             /\ terminated' = Range(spawned)
                                             /\ wk' = wkAfterTerminate(spawned, fresh)
                                             /\ port' = portAfterTerminate(spawned, fresh,
                                                   [w \in Range(spawned) |-> <<>>])
    /\ UNCHANGED <<tmVars, files, fileMeta>>

\* a 'message', 'error' or 'exit' event of worker w reaches the pool
Deliver(w) ==
    /\ w \in DOMAIN port /\ rcv[w] < Len(port[w])
    /\ LET m  == port[w][rcv[w] + 1]
           p1 == [promise EXCEPT ![w] = settle(@, m)]
       IN  /\ rcv' = [rcv EXCEPT ![w] = @ + 1]
           /\ results' = onMessage(results, m)
           /\ promise' = p1
           /\ IF pc = "awaiting" /\ (p1[w] = "rejected" \/ allResolved(p1))
              THEN /\ pc' = "cleanup"
                   /\ thrown' = IF p1[w] = "rejected"
                                THEN [kind |-> m.type, worker |-> chunks[w].workerIndex]
                                ELSE thrown
                   /\ terminated' = terminated \cup Range(workers)
                   /\ wk' = wkAfterTerminate(workers, wk)
                   /\ port' = portAfterTerminate(workers, wk, port)
              ELSE UNCHANGED <<pc, thrown, terminated, wk, port>>
    /\ UNCHANGED <<tmVars, files, fileMeta, filesToProcess, chunks, workers>>

\* cleanup's await ends, this.workers is reset, processFiles returns or throws
CleanupDone ==
    /\ pc = "cleanup"
    /\ cleanupAwaited(workers)
    /\ workers' = <<>>
    /\ pc' = IF thrown = NoError THEN "returned" ELSE "thrown"
    /\ UNCHANGED <<tmVars, files, fileMeta, filesToProcess, chunks, wk, port, rcv,
                   promise, terminated, results, thrown>>

(***************************************************************************)
(* ThreadManager.processSingleThreaded: one iteration of its for loop; the *)
(* loop index is the number of files already counted or recorded.          *)
(***************************************************************************)
singleIndex(res) == res.processed + Len(res.errors)

SingleStep ==
    /\ pc = "single"
    /\ singleIndex(results) < Len(filesToProcess)
    /\ LET file == filesToProcess[singleIndex(results) + 1]
       IN  \E ok \in BOOLEAN :
             results' = IF ok
                        THEN [results EXCEPT
                                 !.processed = @ + 1,
                                 !.totalSizeReduction = @ + SizeReduction(file),
                                 !.files = Append(@, file)]
                        ELSE [results EXCEPT
                                 !.errors = Append(@, [task |-> file, worker |-> -1])]
    /\ UNCHANGED <<tmVars, files, fileMeta, filesToProcess, chunks, pc, workers, wk,
                   port, rcv, promise, terminated, thrown>>

SingleReturn ==
    /\ pc = "single"
    /\ singleIndex(results) = Len(filesToProcess)
    /\ pc' = "returned"
    /\ UNCHANGED <<tmVars, files, fileMeta, filesToProcess, chunks, workers, wk, port,
                   rcv, promise, terminated, results, thrown>>

(***************************************************************************)
(* Specification SpecPool: one processFiles call on a fresh ThreadManager. *)
(***************************************************************************)
MaxPoolFiles == 4
PoolThreadsOptions == {2}

InitPool ==
    /\ totalCores = 1
    /\ options \in {o \in OptionValues :
                       o.threads \in PoolThreadsOptions /\ ~o.ultrafast}
    /\ threadCount = calculateOptimalThreads(totalCores, options)
    /\ \E n \in 0..MaxPoolFiles :
          /\ files = FileList(n)
          \* with 4 or more files forceThreads does not change the route
          /\ n >= 4 => ~options.forceThreads
    /\ fileMeta = [i \in DOMAIN files |-> SmallImage]
    /\ filesToProcess = <<>>
    /\ chunks = <<>>
    /\ pc = "constructed"
    /\ PoolIdle

NextPool ==
    \/ ProcessFiles
    \/ \E w \in 1..MaxPoolFiles :
          \/ WorkerSetup(w)
          \/ WorkerItem(w)
          \/ WorkerComplete(w)
          \/ WorkerExit(w)
          \/ WorkerCrash(w)
          \/ WorkerQuit(w)
          \/ Deliver(w)
    \/ CleanupDone
    \/ SingleStep
    \/ SingleReturn

SpecPool == InitPool /\ [][NextPool]_vars

(***************************************************************************)
(* Specification SpecPoolFair: the same call when the event loop of the    *)
(* main thread runs every handler whose event has arrived and every worker *)
(* thread keeps running until it has exited.                               *)
(***************************************************************************)
WorkerRuns(w) ==
    \/ WorkerSetup(w)
    \/ WorkerItem(w)
    \/ WorkerComplete(w)
    \/ WorkerExit(w)
    \/ WorkerCrash(w)
    \/ WorkerQuit(w)

PoolFairness ==
    /\ WF_vars(ProcessFiles)
    /\ \A w \in 1..MaxPoolFiles : WF_vars(WorkerRuns(w)) /\ WF_vars(Deliver(w))
    /\ WF_vars(CleanupDone)
    /\ WF_vars(SingleStep)
    /\ WF_vars(SingleReturn)

SpecPoolFair == InitPool /\ [][NextPool]_vars /\ PoolFairness

(***************************************************************************)
(* Properties of the pool (specification SpecPool).                        *)
(***************************************************************************)
Spawned == DOMAIN wk

\* the messages worker w has posted (lifecycle events left out)
Messages(w) == SelectSeq(port[w], LAMBDA m : m.type \notin {"error_event", "exit"})
ItemMessages(w) == SelectSeq(port[w], LAMBDA m : m.type \in {"progress", "error"})
TerminalMessages(w) ==
    SelectSeq(port[w], LAMBDA m : m.type \in {"complete", "worker_error"})

Successes(w) == SelectSeq(wk[w].results, LAMBDA e : e.success)
Failures(w) == SelectSeq(wk[w].results, LAMBDA e : ~e.success)
HasUnclonable(w) == \E k \in DOMAIN wk[w].results : ~wk[w].results[k].clonable

RECURSIVE SumOver(_, _)
SumOver(f, S) ==
    IF S = {} THEN 0 ELSE LET x == CHOOSE y \in S : TRUE IN f[x] + SumOver(f, S \ {x})

ExpectedProcessed == SumOver([w \in Spawned |-> Len(Successes(w))], Spawned)
ExpectedReduction == SumOver([w \in Spawned |-> SumReduction(Successes(w))], Spawned)
ExpectedErrors ==
    UNION {{[task |-> e.task, worker |-> chunks[w].workerIndex] :
               e \in Range(Failures(w))} : w \in Spawned}

\* C2: every spawned worker has been terminated, and its termination awaited,
\* before processFiles returns a result or throws, whatever ended the batch.
C2_Teardown ==
    pc \in {"returned", "thrown"} =>
        \A w \in Spawned : w \in terminated /\ Exited(w) /\ wk[w].pc = "exited"

C2_Witness ==
    /\ pc = "thrown"
    /\ thrown.kind = "exit"
    /\ Cardinality(Spawned) = 2
    \* a sibling was stopped in the middle of its chunk
    /\ \E w \in Spawned : wk[w].idx = 1 /\ TerminalMessages(w) = <<>>
                            /\ chunks[w].workerIndex # thrown.worker

\* C3: a failing item does not stop its worker: the worker goes on with the
\* later items and a thrown item alone never produces worker_error; when
\* processFiles returns, every failed item is in the batch error list and
\* the successes of the other items are counted; the batch is rejected only
\* by a fault of a worker or of a spawn, never by a failed item.
C3_ItemFailureIsolated ==
    /\ \A w \in Spawned :
          /\ (wk[w].ready /\ ~HasUnclonable(w)) =>
                \A k \in DOMAIN port[w] : port[w][k].type # "worker_error"
          /\ \A k \in DOMAIN port[w] :
                port[w][k].type = "complete" =>
                    /\ port[w][k].results = wk[w].results
                    /\ Len(wk[w].results) = Len(chunks[w].files)
                    /\ \A i \in DOMAIN chunks[w].files :
                          wk[w].results[i].task = chunks[w].files[i]
    /\ (pc = "returned" /\ Spawned # {}) =>
          /\ ExpectedErrors \subseteq Range(results.errors)
          /\ results.processed = ExpectedProcessed
    /\ pc = "thrown" =>
          /\ thrown.kind \in {"spawn", "worker_error", "error_event", "exit"}
          /\ thrown.kind = "worker_error" =>
                \E w \in Spawned : /\ chunks[w].workerIndex = thrown.worker
                                    /\ (~wk[w].ready \/ HasUnclonable(w))

C3_Witness ==
    /\ pc = "returned"
    /\ \E w \in Spawned :
          /\ Len(wk[w].results) = 2
          /\ ~wk[w].results[1].success
          /\ wk[w].results[2].success
          /\ [task |-> wk[w].results[1].task, worker |-> chunks[w].workerIndex]
                \in Range(results.errors)
          /\ wk[w].results[2].task \in Range(results.files)

\* C4: a worker_error message from any worker aborts the batch: once it has
\* been handled processFiles is on its way to throwing and never returns a
\* result, even when siblings have delivered `complete`; per-item `error`
\* messages alone never reject a worker's promise.
C4_WorkerErrorAborts ==
    /\ \A w \in Spawned :
          "worker_error" \in Delivered(w) =>
              /\ pc \in {"cleanup", "thrown"}
              /\ thrown # NoError
              /\ promise[w] = "rejected"
    /\ \A w \in Spawned :
          promise[w] = "rejected" =>
              Delivered(w) \cap {"worker_error", "error_event", "exit"} # {}
    /\ pc = "returned" => thrown = NoError

C4_Witness ==
    /\ pc = "thrown"
    /\ thrown.kind = "worker_error"
    /\ \E w \in Spawned : promise[w] = "resolved" /\ "complete" \in Delivered(w)
    /\ \E w \in Spawned : "error" \in Delivered(w) /\ "worker_error" \in Delivered(w)

\* C5: processFiles ends either by returning a result into which the
\* `complete` message of every spawned worker has been merged, or by throwing
\* one error; it never returns while some worker's `complete` is unmerged.
C5_AllOrNothing ==
    /\ (pc = "returned" /\ chunks # <<>>) =>
          /\ thrown = NoError
          /\ Spawned = DOMAIN chunks
          /\ \A w \in Spawned : "complete" \in Delivered(w) /\ promise[w] = "resolved"
          /\ results.processed = ExpectedProcessed
          /\ results.totalSizeReduction = ExpectedReduction
    /\ pc = "thrown" => thrown # NoError

C5_Witness ==
    /\ pc = "returned"
    /\ Cardinality(Spawned) = 2
    /\ results.processed = 3
    /\ Len(results.errors) = 1

\* C6 (as the claim states it): for fixed chunks and per-item outcomes every
\* interleaving yields the same BatchResult, file list included; the run that
\* delivers the `complete` messages in chunk order is one of them.
RECURSIVE InOrderFiles(_)
InOrderFiles(w) ==
    IF w > Len(chunks) THEN <<>>
    ELSE (IF w \in Spawned
          THEN LET out == SelectSeq(Successes(w), LAMBDA e : e.task.fragmentIndex = -1)
               IN  [k \in 1..Len(out) |-> out[k].task]
          ELSE <<>>) \o InOrderFiles(w + 1)

C6_SameResultAnyOrder ==
    (pc = "returned" /\ chunks # <<>>) =>
        /\ results.processed = ExpectedProcessed
        /\ results.totalSizeReduction = ExpectedReduction
        /\ Range(results.errors) = ExpectedErrors
        /\ results.files = InOrderFiles(1)

\* C6 (amended): every interleaving yields the same processed, the same
\* totalSizeReduction, the same error set and the same file list up to the
\* order of the chunks: the same pairs, each once.
C6_SameResultUpToOrder ==
    (pc = "returned" /\ chunks # <<>>) =>
        /\ results.processed = ExpectedProcessed
        /\ results.totalSizeReduction = ExpectedReduction
        /\ Range(results.errors) = ExpectedErrors
        /\ Len(results.errors) = Cardinality(ExpectedErrors)
        /\ Range(results.files) = Range(InOrderFiles(1))
        /\ Len(results.files) = Len(InOrderFiles(1))

C6_Witness ==
    /\ pc = "returned"
    /\ Cardinality(Spawned) = 2
    /\ results.files # InOrderFiles(1)
    /\ Len(results.files) = 3
    /\ Len(results.errors) = 1

\* C7 (as the claim states it): a worker that has posted its terminal message
\* has posted exactly one progress or error message per item, in item order,
\* before it; there is one terminal message, complete or worker_error, and
\* nothing follows it.
ItemMessagesInOrder(w, n) ==
    /\ Len(ItemMessages(w)) = n
    /\ \A k \in 1..n : ItemMessages(w)[k].task = chunks[w].files[k]
    /\ \A k \in 1..n : Messages(w)[k] = ItemMessages(w)[k]

C7_ProtocolAsClaimed ==
    \A w \in Spawned :
        /\ Len(TerminalMessages(w)) <= 1
        /\ wk[w].pc = "finished" => Len(TerminalMessages(w)) = 1
        /\ Len(TerminalMessages(w)) = 1 =>
              /\ ItemMessagesInOrder(w, Len(chunks[w].files))
              /\ Messages(w)[Len(Messages(w))] = TerminalMessages(w)[1]

\* C7 (amended): a worker posts at most one progress or error message per
\* item, in item order; `complete` follows exactly one such message for every
\* item; worker_error follows either no item message (setup failed) or one
\* for every item (the results could not be posted); a worker whose
\* processChunk has returned has posted exactly one terminal message, never
\* both kinds, and nothing after it.
C7_Protocol ==
    \A w \in Spawned :
        /\ Len(TerminalMessages(w)) <= 1
        /\ wk[w].pc = "finished" => Len(TerminalMessages(w)) = 1
        /\ ItemMessagesInOrder(w, wk[w].idx)
        /\ Len(TerminalMessages(w)) = 1 =>
              /\ Messages(w)[Len(Messages(w))] = TerminalMessages(w)[1]
              /\ TerminalMessages(w)[1].type = "complete" =>
                    wk[w].idx = Len(chunks[w].files)
              /\ TerminalMessages(w)[1].type = "worker_error" =>
                    \/ wk[w].idx = 0 /\ ~wk[w].ready
                    \/ wk[w].idx = Len(chunks[w].files) /\ HasUnclonable(w)

C7_Witness ==
    \E w \in Spawned :
        /\ Len(chunks[w].files) = 2
        /\ Len(Messages(w)) = 3
        /\ Messages(w)[1].type = "error"
        /\ Messages(w)[2].type = "progress"
        /\ Messages(w)[3].type = "complete"
        /\ wk[w].pc = "exited"

\* C11: a batch of fewer than 4 files without forceThreads never spawns a
\* worker: it is processed on the calling thread, a failing file is recorded
\* in errors and the remaining files are still processed, and when every
\* file succeeds processed is the number of files (3 for a batch of 3).  A
\* non-empty batch of 4 or more tasks, or with forceThreads, is chunked and
\* handed to workers.
SingleRouted == Len(files) < SingleThreadLimit /\ ~options.forceThreads

C11_Routing ==
    (pc # "constructed" /\ files # <<>>) =>
        IF SingleRouted
        THEN /\ pc \in {"single", "returned"}
             /\ chunks = <<>> /\ workers = <<>> /\ Spawned = {} /\ terminated = {}
             /\ thrown = NoError
             /\ singleIndex(results) <= Len(files)
             /\ \A k \in 1..singleIndex(results) :
                   \/ filesToProcess[k] \in Range(results.files)
                   \/ [task |-> filesToProcess[k], worker |-> -1] \in Range(results.errors)
             /\ pc = "returned" =>
                   /\ results.processed + Len(results.errors) = Len(files)
                   /\ results.errors = <<>> => results.processed = Len(files)
        ELSE /\ pc \in {"awaiting", "cleanup", "returned", "thrown"}
             /\ chunks = chunkFiles(filesToProcess, threadCount)
             /\ chunks # <<>>
             /\ thrown.kind # "spawn" => Spawned = DOMAIN chunks

C11_Witness ==
    /\ pc = "returned"
    /\ Len(files) = 3
    /\ ~options.forceThreads
    /\ results.processed = 2
    /\ results.errors = <<[task |-> files[2], worker |-> -1]>>
    /\ results.files = <<files[1], files[3]>>

ErrorTasks == {results.errors[k].task : k \in DOMAIN results.errors}

SucceededTasks == SelectSeq(filesToProcess, LAMBDA t : t \notin ErrorTasks)

\* C27: when processFiles returns normally, processed equals the number of
\* tasks that succeeded, totalSizeReduction is the sum of originalSize -
\* compressedSize over those tasks, errors has exactly one entry per failed
\* task, and processed + |errors| is the number of tasks handed out, on the
\* pool path and on the single-thread path.
C27_AggregationTotals ==
    pc = "returned" =>
        /\ Cardinality(ErrorTasks) = Len(results.errors)
        /\ ErrorTasks \subseteq Range(filesToProcess)
        /\ results.processed = Len(SucceededTasks)
        /\ results.processed + Len(results.errors) = Len(filesToProcess)
        /\ results.totalSizeReduction
              = SumReduction([k \in DOMAIN SucceededTasks |-> [task |-> SucceededTasks[k]]])
        /\ \A w \in DOMAIN wk : \A k \in DOMAIN wk[w].results :
              wk[w].results[k].success <=> wk[w].results[k].task \notin ErrorTasks

C27_Witness ==
    /\ pc = "returned"
    /\ Len(chunks) = 2
    /\ Len(filesToProcess) = 4
    /\ results.processed = 3
    /\ Len(results.errors) = 1
    /\ results.totalSizeReduction > 0

\* C28: in a pool run that completes, every task of the list is compressed
\* exactly once, by the worker whose chunk contains it and by no other; each
\* worker processes its chunk in list order, one task at a time; while the
\* run is in progress a worker has handled exactly the first idx tasks of
\* its chunk.
C28_ExactlyOnceStatic ==
    /\ \A w \in DOMAIN wk :
          (\A k \in DOMAIN wk[w].results : wk[w].results[k].clonable) =>
              /\ Len(wk[w].results) = wk[w].idx
              /\ \A k \in DOMAIN wk[w].results :
                    wk[w].results[k].task = chunks[w].files[k]
    /\ (pc = "returned" /\ chunks # <<>>) =>
          /\ DOMAIN wk = DOMAIN chunks
          /\ \A w \in DOMAIN wk :
                [k \in DOMAIN wk[w].results |-> wk[w].results[k].task] = chunks[w].files
          /\ Concat([c \in DOMAIN chunks |-> chunks[c].files]) = filesToProcess
          /\ \A t \in Range(filesToProcess) :
                Cardinality({w \in DOMAIN wk :
                                \E k \in DOMAIN wk[w].results :
                                    wk[w].results[k].task = t}) = 1

C28_Witness ==
    /\ pc = "returned"
    /\ Len(chunks) = 2
    /\ Len(filesToProcess) = 4
    /\ Len(wk[1].results) = 2
    /\ Len(wk[2].results) = 2
    /\ wk[2].results[1].task = filesToProcess[3]

\* C38: the results list carried by a worker's complete message has exactly
\* one entry per task of the chunk, in chunk order, each entry marked
\* success or failure and never both for the same task, even when posting
\* that task's progress message itself fails.
C38_OneOutcomePerItem ==
    \A w \in DOMAIN wk : \A k \in DOMAIN port[w] :
        port[w][k].type = "complete" =>
            LET rs == port[w][k].results
            IN  /\ Len(rs) = Len(chunks[w].files)
                /\ \A i \in DOMAIN rs :
                      /\ rs[i].task = chunks[w].files[i]
                      /\ rs[i].success \in BOOLEAN
                /\ \A i, j \in DOMAIN rs : rs[i].task = rs[j].task => i = j

C38_Witness ==
    /\ \E w \in DOMAIN wk : \E k \in DOMAIN port[w] :
          /\ port[w][k].type = "complete"
          /\ \E i, j \in DOMAIN port[w][k].results :
                port[w][k].results[i].success /\ ~port[w][k].results[j].success
    \* a sibling whose progress message could not be posted holds two
    \* entries for that task and ends with worker_error
    /\ \E w \in DOMAIN wk :
          /\ wk[w].pc = "finished"
          /\ Len(wk[w].results) > Len(chunks[w].files)
          /\ port[w][Len(port[w])].type = "worker_error"

CompleteDelivered(w) == "complete" \in Delivered(w)

\* C36: once a worker has delivered complete, no later event of that worker
\* (the nonzero exit code produced by terminate() during cleanup, a late
\* error event) makes processFiles throw, and the BatchResult is not
\* modified after processFiles has returned it.
C36_StableAfterComplete ==
    /\ [](\A w \in DOMAIN wk :
            CompleteDelivered(w) =>
                /\ promise[w] = "resolved"
                /\ pc = "thrown" => thrown.worker # chunks[w].workerIndex)
    /\ [][pc = "returned" => (results' = results /\ pc' = "returned")]_vars

C36_Witness ==
    /\ pc = "returned"
    /\ Len(chunks) = 2
    /\ \E w \in DOMAIN wk :
          /\ {"complete", "error_event", "exit"} \subseteq Delivered(w)
          /\ port[w][Len(port[w])] = ExitEvent(1)
    /\ \E w \in DOMAIN wk :
          /\ {"complete", "exit"} \subseteq Delivered(w)
          /\ "error_event" \notin Delivered(w)
          /\ port[w][Len(port[w])] = ExitEvent(1)

\* C35: processFiles eventually returns or throws for every behaviour of
\* its workers in which each worker eventually sends a terminal message,
\* raises an error event or exits; a worker that exits with code 0 without
\* having sent complete or worker_error does not leave it pending forever.
C35_PoolTerminates ==
    <>(pc \in {"returned", "thrown"})

(***************************************************************************)
(* Specification SpecFrag: splitLargeImagesIntoFragments applied to a file *)
(* list with arbitrary metadata and an arbitrary threadCount >= 1.         *)
(***************************************************************************)
MaxFragFiles == 2
MaxFragThreads == 4
MaxImageHeight == 9

FragMetaValues ==
    {[image |-> FALSE, size |-> MIN_FRAGMENT_SIZE + 1, readable |-> TRUE,
      height |-> 1, width |-> 1],
     SmallImage,
     [image |-> TRUE, size |-> MIN_FRAGMENT_SIZE + 1, readable |-> TRUE,
      height |-> 1, width |-> 0],
     [image |-> TRUE, size |-> MIN_FRAGMENT_SIZE + 1, readable |-> FALSE,
      height |-> 0, width |-> 0]}
    \cup [image : {TRUE}, size : {MIN_FRAGMENT_SIZE, MIN_FRAGMENT_SIZE + 1},
          readable : {TRUE}, height : 0..MaxImageHeight, width : {1}]

InitFrag ==
    /\ totalCores = 1
    /\ options = [threads |-> 0, ultrafast |-> FALSE, forceThreads |-> TRUE]
    /\ threadCount \in 1..MaxFragThreads
    /\ \E n \in 1..MaxFragFiles :
          /\ files = FileList(n)
          /\ fileMeta \in [1..n -> FragMetaValues]
    /\ filesToProcess = <<>>
    /\ chunks = <<>>
    /\ pc = "constructed"
    /\ PoolIdle

\* sharp(file).extract(region): a region outside the image or without rows
\* is not one the image library defines a result for
validRegion(t, meta) ==
    /\ t.top >= 0
    /\ t.height > 0
    /\ t.top + t.height <= meta[t.file].height

SplitOutcomes == {"returns", "extract throws", "metadata throws"}

\* the first file, in list order, whose metadata read rejects; Len + 1 if none
firstUnreadable(fs, meta) ==
    LET bad == {f \in DOMAIN fs : readsMetadata(meta[f]) /\ ~meta[f].readable}
    IN  IF bad = {} THEN Len(fs) + 1
        ELSE CHOOSE f \in bad : \A g \in bad : f <= g

\* the whole loop: neither image.metadata() nor extract().toBuffer() is
\* inside a try, so the first rejection ends the function
SplitFiles ==
    /\ pc = "constructed"
    /\ LET u   == firstUnreadable(files, fileMeta)
           out == splitLargeImagesIntoFragments(SubSeq(files, 1, u - 1), fileMeta,
                                                threadCount)
           allValid == \A k \in DOMAIN out :
                          out[k].fragmentIndex >= 0 => validRegion(out[k], fileMeta)
       IN  \E o \in SplitOutcomes :
              /\ o = "returns" => u > Len(files)
              /\ o = "metadata throws" => u <= Len(files)
              /\ o = "extract throws" => ~allValid
              /\ IF o = "returns"
                 THEN /\ filesToProcess' = out
                      /\ pc' = "split"
                      /\ UNCHANGED thrown
                 ELSE /\ pc' = "thrown"
                      /\ thrown' = [kind |-> IF o = "extract throws" THEN "extract"
                                             ELSE "metadata",
                                    worker |-> -1]
                      /\ UNCHANGED filesToProcess
    /\ UNCHANGED <<tmVars, files, fileMeta, chunks, workers, wk, port, rcv,
                   promise, terminated, results>>

NextFrag == SplitFiles

SpecFrag == InitFrag /\ [][NextFrag]_vars

FragmentsOfFile(f) ==
    SelectSeq(filesToProcess, LAMBDA t : t.file = f /\ t.fragmentIndex >= 0)

Rows(t) == {r \in 0..(2 * MaxImageHeight + 2) : t.top <= r /\ r < t.top + t.height}

Fragmentable(m) ==
    m.image /\ m.size >= MIN_FRAGMENT_SIZE /\ m.readable /\ m.height >= 1 /\ m.width >= 1

\* C8: for every threadCount >= 1 and every image height >= 1, an image that
\* is fragmented gets fragments whose row ranges [top, top+height) each have
\* positive height, are pairwise disjoint, lie inside [0, imageHeight) and
\* whose union is exactly [0, imageHeight).
C8_FragmentationCoverage ==
    (/\ pc \in {"split", "thrown"}
     /\ \A f \in DOMAIN fileMeta : fileMeta[f].readable
     /\ \E f \in DOMAIN fileMeta : Fragmentable(fileMeta[f])) =>
        /\ pc = "split"
        /\ \A f \in DOMAIN fileMeta :
            LET fr == FragmentsOfFile(f)
                h  == fileMeta[f].height
            IN  /\ Fragmentable(fileMeta[f]) => fr # <<>>
                /\ fr # <<>> =>
                  /\ \A k \in DOMAIN fr :
                        /\ fr[k].height > 0
                        /\ fr[k].top >= 0
                        /\ fr[k].top + fr[k].height <= h
                  /\ \A j, k \in DOMAIN fr :
                        j # k => Rows(fr[j]) \cap Rows(fr[k]) = {}
                  /\ UNION {Rows(fr[k]) : k \in DOMAIN fr} = 0..(h - 1)

PassesThrough(m) == ~m.image \/ m.size <= MIN_FRAGMENT_SIZE

\* C23: every file that is not an image, and every image whose size is not
\* above 100 MiB (exactly 100 MiB included), appears in the Fragmenter's
\* output unchanged, exactly once and in its original relative order; only
\* images above the threshold are replaced by fragments.
C23_PassThrough ==
    pc = "split" =>
        /\ SelectSeq(filesToProcess, LAMBDA t : PassesThrough(fileMeta[t.file]))
              = SelectSeq(files, LAMBDA t : PassesThrough(fileMeta[t.file]))
        /\ \A k \in DOMAIN filesToProcess :
              filesToProcess[k].fragmentIndex >= 0 =>
                  /\ fileMeta[filesToProcess[k].file].image
                  /\ fileMeta[filesToProcess[k].file].size > MIN_FRAGMENT_SIZE

Undeterminable(m) ==
    readsMetadata(m) /\ (~m.readable \/ m.height = 0 \/ m.width = 0)

\* C24: when the width or height of an over-threshold image cannot be
\* determined (missing or zero, or the metadata read itself fails) the file
\* is passed through un-fragmented and splitLargeImagesIntoFragments does not
\* throw.  Stated for lists in which no image is fragmented, so that no
\* extract takes place.
C24_UndeterminableMetadata ==
    (/\ pc \in {"split", "thrown"}
     /\ \A f \in DOMAIN fileMeta : ~Fragmentable(fileMeta[f])) =>
        /\ pc = "split"
        /\ \A f \in DOMAIN files :
              Undeterminable(fileMeta[f]) =>
                  \E k \in DOMAIN filesToProcess : filesToProcess[k] = files[f]

FragmentPositions(f) ==
    {k \in DOMAIN filesToProcess :
        filesToProcess[k].file = f /\ filesToProcess[k].fragmentIndex >= 0}

\* C25: a fragmented image yields exactly max(2, threadCount) fragments,
\* placed consecutively in the output in increasing fragmentIndex, the
\* fragmentIndex values being 0..totalFragments-1 once each, totalFragments
\* equal to the fragment count on every fragment, and each fragment tagged
\* with the file it was cut from.
C25_FragmentCountAndTagging ==
    pc = "split" =>
        \A f \in DOMAIN files :
            LET pos == FragmentPositions(f)
                n   == Max(MIN_FRAGMENTS, threadCount)
            IN  /\ Fragmentable(fileMeta[f]) => pos # {}
                /\ pos # {} =>
                      /\ Fragmentable(fileMeta[f])
                      /\ Cardinality(pos) = n
                      /\ \E lo \in pos :
                            /\ pos = lo..(lo + n - 1)
                            /\ \A k \in pos :
                                  /\ filesToProcess[k].fragmentIndex = k - lo
                                  /\ filesToProcess[k].totalFragments = n
                      /\ \A k \in DOMAIN filesToProcess :
                            filesToProcess[k].file = f => k \in pos

C25_Witness ==
    /\ pc = "split"
    /\ threadCount = 4
    /\ Len(files) = 2
    /\ Cardinality(FragmentPositions(1)) = 4
    /\ Cardinality(FragmentPositions(2)) = 4

(***************************************************************************)
(* ImageCompressor: the target-size paths.  The codec is external; an      *)
(* encoder gives the byte size of the encode of the decoded source at a    *)
(* format and a codec quality.  enc.gran is the width of its plateaus and  *)
(* enc.spike, when not 0, a codec quality at which the output is larger    *)
(* than at its neighbours (a non-monotone encoder).                        *)
(***************************************************************************)
MinQuality == 5
MaxQuality == 95
maxAttempts == 15
AvifQualityFloor == 20
AvifQualityOffset == 35
DefaultQuality == 85
SpikeBytes == 40
AutoUtilisationPercent == 95
Infinity == 2147483647

SearchFormats == {"jpeg", "webp", "avif"}

\* getCompressionOptions(format, quality).quality
codecQuality(format, quality) ==
    IF format = "avif" THEN Max(AvifQualityFloor, quality - AvifQualityOffset)
                       ELSE quality

\* byte length of the buffer the codec produces
CodecSize(enc, format, cq) ==
    (cq \div enc.gran) * enc.gran
        + (IF enc.spike # 0 /\ cq = enc.spike THEN SpikeBytes ELSE 0)

\* compressWithQuality(...).length
compressWithQuality(enc, format, quality) ==
    CodecSize(enc, format, codecQuality(format, quality))

searchStepWrongHalf(st, size, targetSize) ==
    LET q == (st.minQ + st.maxQ) \div 2
    IN  IF size <= targetSize
        THEN [st EXCEPT !.bestQ = q, !.bestSize = size, !.maxQ = q - 1,
                        !.attempts = @ + 1, !.tested = Append(@, q)]
        ELSE [st EXCEPT !.minQ = q + 1,
                        !.attempts = @ + 1, !.tested = Append(@, q)]

searchStepNoAdvance(st, size, targetSize) ==
    LET q == (st.minQ + st.maxQ) \div 2
    IN  IF size <= targetSize
        THEN [st EXCEPT !.bestQ = q, !.bestSize = size, !.minQ = q,
                        !.attempts = @ + 1, !.tested = Append(@, q)]
        ELSE [st EXCEPT !.maxQ = q - 1,
                        !.attempts = @ + 1, !.tested = Append(@, q)]

searchStepKeepsOversized(st, size, targetSize) ==
    LET q == (st.minQ + st.maxQ) \div 2
    IN  IF size <= targetSize
        THEN [st EXCEPT !.bestQ = q, !.bestSize = size, !.minQ = q + 1,
                        !.attempts = @ + 1, !.tested = Append(@, q)]
        ELSE [st EXCEPT !.bestQ = q, !.bestSize = size, !.maxQ = q - 1,
                        !.attempts = @ + 1, !.tested = Append(@, q)]

\* one iteration of the while loop of binarySearchQuality[Buffer]
searchStep(st, size, targetSize) ==
    LET q == (st.minQ + st.maxQ) \div 2
    IN  IF size <= targetSize
        THEN [st EXCEPT !.bestQ = q, !.bestSize = size, !.minQ = q + 1,
                        !.attempts = @ + 1, !.tested = Append(@, q)]
        ELSE [st EXCEPT !.maxQ = q - 1,
                        !.attempts = @ + 1, !.tested = Append(@, q)]

searchContinues(st) == st.minQ <= st.maxQ /\ st.attempts < maxAttempts

\* optimizePNG: the first configuration that fits, else configs[0]
PngConfigs == 1..4

\* the configurations of optimizePNG in the order of its list; the last one
\* has no palette
PngConfigValues ==
    <<[palette |-> TRUE,  quality |-> 50, colours |-> 128],
      [palette |-> TRUE,  quality |-> 40, colours |-> 64],
      [palette |-> TRUE,  quality |-> 30, colours |-> 32],
      [palette |-> FALSE, quality |-> 50, colours |-> 0]>>

optimizePNG(pngSize, targetSize) ==
    LET fitting == {k \in PngConfigs : pngSize[k] <= targetSize}
    IN  IF fitting # {}
        THEN CHOOSE k \in fitting : \A j \in fitting : k <= j
        ELSE 1

\* the comparators used on strategy results
sortKey(by, r) ==
    CASE by = "size"     -> r.size
      [] by = "time"     -> r.processingTime
      [] by = "sizeDesc" -> 0 - r.size

\* Array.prototype.sort is stable: insertion keeps ties in their order
RECURSIVE InsertBy(_, _, _)
InsertBy(by, x, sorted) ==
    IF sorted = <<>> THEN <<x>>
    ELSE IF sortKey(by, x) < sortKey(by, Head(sorted)) THEN <<x>> \o sorted
    ELSE <<Head(sorted)>> \o InsertBy(by, x, Tail(sorted))

RECURSIVE SortBy(_, _)
SortBy(by, s) ==
    IF s = <<>> THEN <<>>
    ELSE LET front == SubSeq(s, 1, Len(s) - 1)
         IN  InsertBy(by, s[Len(s)], SortBy(by, front))

\* the filter and sort of extremeCompressionParallel
successfulOf(catalog, targetSize) ==
    SortBy("size", SelectSeq(catalog, LAMBDA r : r.success /\ r.size <= targetSize))

\* the `auto` branch of selectBestResult
autoChoiceAlwaysLargest(smallest, bestQuality, targetSize) == bestQuality

autoChoice(smallest, bestQuality, targetSize) ==
    IF bestQuality.size * 100 <= AutoUtilisationPercent * targetSize
    THEN bestQuality ELSE smallest

selectBestResultSmallest(rs, strategy, targetSize) == rs[1]

selectBestResult(rs, strategy, targetSize) ==
    LET smallest    == rs[1]
        fastest     == SortBy("time", rs)[1]
        bestQuality == SortBy("sizeDesc", rs)[1]
    IN  CASE strategy = "size"    -> smallest
          [] strategy = "speed"   -> fastest
          [] strategy = "quality" -> bestQuality
          [] OTHER -> autoChoice(smallest, bestQuality, targetSize)

\* options.strategy || 'auto'
strategyOrAuto(strategy) == IF strategy = "absent" THEN "auto" ELSE strategy

SearchUnchanged ==
    UNCHANGED <<mgr, totalCores, options, threadCount, sem, tm, job, api, files, fileMeta,
                filesToProcess, chunks, pc, poolVars>>

\* compressToTargetSizeFile / compressToTargetSizeBuffer
isExtremeRatioInclusive(targetSize, originalSize) == targetSize * 10 <= originalSize

\* compressionRatio < 0.10 with compressionRatio = targetSize / originalSize
isExtremeRatio(targetSize, originalSize) == targetSize * 10 < originalSize

CompressToTargetSize ==
    /\ search.pc = "start"
    /\ search' = IF isExtremeRatio(search.targetSize, search.originalSize)
                 THEN [search EXCEPT !.pc = "extreme"]
                 ELSE [search EXCEPT !.pc = "standard", !.variant = search.output]
    /\ SearchUnchanged

\* extremeCompressionParallel; its fallback is the file variant of
\* standardCompression whatever the output
ExtremeCompressionParallel ==
    /\ search.pc = "extreme"
    /\ LET successful == successfulOf(search.catalog, search.targetSize)
       IN  search' =
             IF Len(successful) > 0
             THEN LET chosen == selectBestResult(successful,
                                                 strategyOrAuto(search.strategy),
                                                 search.targetSize)
                  IN  [search EXCEPT !.pc = "done", !.path = "extreme",
                                     !.chosen = chosen,
                                     !.resultSize = chosen.size]
             ELSE [search EXCEPT !.pc = "standard", !.variant = "file",
                                 !.extremeFallback = TRUE]
    /\ SearchUnchanged

\* standardCompression / standardCompressionBuffer
StandardCompression ==
    /\ search.pc = "standard"
    /\ IF search.format \in {"jpeg", "jpg", "webp", "avif"}
       THEN search' = [search EXCEPT !.pc = "searching"]
       ELSE IF search.variant = "file"
       THEN LET k == optimizePNG(search.pngSize, search.targetSize)
            IN  search' = [search EXCEPT !.pc = "done", !.path = "png",
                                         !.resultConfig = k,
                                         !.resultSize = search.pngSize[k]]
       ELSE \* the buffer variant encodes once, at options.quality
            search' = [search EXCEPT !.pc = "done", !.path = "plain",
                                     !.resultQ = DefaultQuality,
                                     !.resultSize = search.pngPlain]
    /\ SearchUnchanged

SearchStep ==
    /\ search.pc = "searching"
    /\ searchContinues(search)
    /\ LET q == (search.minQ + search.maxQ) \div 2
       IN  search' = searchStep(search,
                                compressWithQuality(search.enc, search.format, q),
                                search.targetSize)
    /\ SearchUnchanged

SearchFinish ==
    /\ search.pc = "searching"
    /\ ~searchContinues(search)
    /\ search' = IF search.bestQ # 0
                 THEN [search EXCEPT !.pc = "done", !.path = "search",
                                     !.resultQ = search.bestQ,
                                     !.resultSize = search.bestSize]
                 ELSE [search EXCEPT !.pc = "done", !.path = "search",
                          !.fallback = TRUE, !.resultQ = MinQuality,
                          !.resultSize = compressWithQuality(search.enc, search.format,
                                                             MinQuality)]
    /\ SearchUnchanged

(***************************************************************************)
(* Specification SpecSearch: compress with a targetSize on one decoded     *)
(* image, for every format, both outputs and every target in the bound.    *)
(***************************************************************************)
MaxTargetSize == 100
Granularities == {1, 10}
Spikes == {0, 50}
\* options.strategy: the four policies, none given, and an unknown name
Strategies == {"auto", "size", "quality", "speed", "absent", "balanced"}

Outcome(sz, t) == [success |-> TRUE, size |-> sz, processingTime |-> t]
FailedOutcome == [success |-> FALSE, size |-> Infinity, processingTime |-> 0]

\* each result carries the strategy it tested
Tagged(cat) ==
    [k \in DOMAIN cat |->
        [success |-> cat[k].success, size |-> cat[k].size,
         processingTime |-> cat[k].processingTime, strategy |-> k]]

\* catalog outcomes around a target: none, only failures and misses, several
\* that fit, ties in size and in time, and sizes at 95% of the target
Catalogs(t) ==
    { <<>>,
      <<Outcome(t + 1, 3), FailedOutcome>>,
      <<Outcome(t, 1), Outcome(t \div 2, 2)>>,
      <<Outcome(t + 1, 1), Outcome(t \div 2, 3), FailedOutcome, Outcome(t \div 3, 2)>>,
      <<Outcome(t \div 2, 2), FailedOutcome, Outcome(t \div 2, 1), Outcome(t \div 4, 1)>>,
      <<Outcome(t \div 4, 1), Outcome((95 * t) \div 100, 2)>>,
      <<Outcome((95 * t) \div 100 + 1, 2), Outcome(t \div 4, 1)>> }

NoChoice == [success |-> FALSE, size |-> 0, processingTime |-> 0, strategy |-> 0]

InitSearch ==
    /\ totalCores = 1
    /\ options = [threads |-> 0, ultrafast |-> FALSE, forceThreads |-> FALSE]
    /\ threadCount = calculateOptimalThreads(totalCores, options)
    /\ files = <<>>
    /\ fileMeta = <<>>
    /\ filesToProcess = <<>>
    /\ chunks = <<>>
    /\ pc = "constructed"
    /\ workers = <<>>
    /\ wk = <<>>
    /\ port = <<>>
    /\ rcv = <<>>
    /\ promise = <<>>
    /\ terminated = {}
    /\ results = EmptyResults
    /\ thrown = NoError
    /\ sem = SemIdle
    /\ tm = TmIdle
    /\ mgr = MgrIdle
    /\ job = JobIdle
    /\ api = ApiIdle
    /\ \E fmt \in SearchFormats \cup {"png"}, out \in {"file", "buffer"},
          t \in 1..MaxTargetSize, g \in Granularities, sp \in Spikes,
          d \in [PngConfigs -> {0, 1}], pp \in {0, 1},
          ratio \in {"standard", "above", "extreme"}, strat \in Strategies :
          /\ fmt = "png" => (g = 1 /\ sp = 0 /\ t \in {1, MaxTargetSize})
          /\ fmt # "png" => (pp = 0 /\ \A k \in PngConfigs : d[k] = 0)
          /\ ratio # "extreme" => strat = "auto"
          /\ \E cat \in (IF ratio = "extreme" THEN {Tagged(c) : c \in Catalogs(t)}
                                              ELSE {<<>>}) :
                /\ (strat # "auto" => Len(successfulOf(cat, t)) > 1)
                /\ search = [pc |-> "start", format |-> fmt, output |-> out,
                       targetSize |-> t,
                       originalSize |-> CASE ratio = "extreme"  -> 10 * t + 1
                                          [] ratio = "standard" -> 10 * t
                                          [] ratio = "above"    -> 10 * t - 1,
                       strategy |-> strat, catalog |-> cat,
                       enc |-> [gran |-> g, spike |-> sp],
                       pngSize |-> [k \in PngConfigs |-> t + d[k]],
                       pngPlain |-> t + pp,
                       variant |-> "none", path |-> "none", chosen |-> NoChoice,
                       extremeFallback |-> FALSE,
                       minQ |-> MinQuality, maxQ |-> MaxQuality,
                       bestQ |-> 0, bestSize |-> 0, attempts |-> 0, tested |-> <<>>,
                       fallback |-> FALSE, resultQ |-> 0, resultConfig |-> 0,
                       resultSize |-> 0]

NextSearch ==
    \/ CompressToTargetSize
    \/ ExtremeCompressionParallel
    \/ StandardCompression
    \/ SearchStep
    \/ SearchFinish

SpecSearch == InitSearch /\ [][NextSearch]_vars

Qualities == MinQuality..MaxQuality

Monotone(enc, format) ==
    \A q \in MinQuality..(MaxQuality - 1) :
        compressWithQuality(enc, format, q) <= compressWithQuality(enc, format, q + 1)

FittingQualities ==
    {q \in Qualities :
        compressWithQuality(search.enc, search.format, q) <= search.targetSize}

MaxOf(S) == CHOOSE x \in S : \A y \in S : y <= x

\* C9: for an encoder whose size is non-decreasing in quality the search
\* returns the encode at the largest tested quality whose size <= target,
\* which is the largest quality in [5,95] whose size <= target, after at
\* most 15 iterations, and the quality-5 encode when no quality fits.
C9_BinarySearchConvergence ==
    (search.pc = "done" /\ search.path = "search"
        /\ Monotone(search.enc, search.format)) =>
        /\ search.attempts <= maxAttempts
        /\ Len(search.tested) = search.attempts
        /\ IF FittingQualities # {}
           THEN /\ search.resultQ = MaxOf(FittingQualities)
                /\ search.resultQ \in Range(search.tested)
                /\ \A q \in Range(search.tested) :
                      q \in FittingQualities => q <= search.resultQ
                /\ search.resultSize =
                      compressWithQuality(search.enc, search.format, search.resultQ)
                /\ ~search.fallback
           ELSE /\ search.fallback
                /\ search.resultQ = MinQuality
                /\ search.resultSize =
                      compressWithQuality(search.enc, search.format, MinQuality)

C9_Witness ==
    /\ search.pc = "done"
    /\ search.path = "search"
    /\ search.format = "jpeg"
    /\ search.output = "buffer"
    /\ search.enc = [gran |-> 10, spike |-> 0]
    /\ search.targetSize = 64
    /\ search.resultQ = 69
    /\ search.attempts = 7

\* C10: whenever compress with a targetSize returns a result, the result's
\* compressedSize is <= the target, on the extreme path, the binary-search
\* path, the PNG path and the extreme path's fallback.
C10_TargetIsCeiling ==
    search.pc = "done" => search.resultSize <= search.targetSize

InSearch == search.pc = "searching" \/ (search.pc = "done" /\ search.path = "search")

Fits(q) == compressWithQuality(search.enc, search.format, q) <= search.targetSize

\* C29: for every encoder, monotone or not, and every target, the search
\* loop makes at most 15 encodes, every quality it tests is an integer in
\* [5,95], no quality is tested twice, and the interval [minQ, maxQ]
\* strictly shrinks at every iteration.
C29_SearchBounds ==
    /\ [](InSearch =>
            /\ search.attempts <= maxAttempts
            /\ Len(search.tested) = search.attempts
            /\ \A k \in DOMAIN search.tested :
                  search.tested[k] \in MinQuality..MaxQuality
            /\ \A j, k \in DOMAIN search.tested :
                  j # k => search.tested[j] # search.tested[k])
    /\ [][(search.pc = "searching" /\ search'.pc = "searching") =>
            /\ search'.minQ >= search.minQ
            /\ search'.maxQ <= search.maxQ
            /\ search'.maxQ - search'.minQ < search.maxQ - search.minQ]_vars

C29_Witness ==
    /\ search.pc = "done"
    /\ search.path = "search"
    /\ search.format = "jpeg"
    /\ search.enc = [gran |-> 1, spike |-> 50]
    /\ search.targetSize = 60
    /\ search.tested[1] = 50
    /\ search.attempts = 7
    /\ search.resultQ = 49

\* C30: for any encoder, an encode becomes best-so-far only if its size is
\* <= target; each new best-so-far has a strictly higher quality than the
\* previous one, so the best-so-far is the encode of the highest tested
\* quality that fitted; the quality-5 fallback encode is performed only
\* when no tested quality fitted.
C30_BestSoFar ==
    /\ [](InSearch =>
            /\ search.bestQ # 0 =>
                  /\ search.bestQ \in Range(search.tested)
                  /\ Fits(search.bestQ)
                  /\ search.bestSize
                        = compressWithQuality(search.enc, search.format, search.bestQ)
                  /\ \A q \in Range(search.tested) : Fits(q) => q <= search.bestQ
            /\ search.bestQ = 0 => \A q \in Range(search.tested) : ~Fits(q)
            /\ search.pc = "done" =>
                  /\ search.fallback <=> \A q \in Range(search.tested) : ~Fits(q)
                  /\ ~search.fallback =>
                        /\ search.resultQ = search.bestQ
                        /\ search.resultSize = search.bestSize)
    /\ [][(search.pc = "searching" /\ search'.pc = "searching"
              /\ search'.bestQ # search.bestQ) =>
            search'.bestQ > search.bestQ]_vars

C30_Witness ==
    /\ search.pc = "done"
    /\ search.path = "search"
    /\ search.format = "webp"
    /\ search.enc = [gran |-> 1, spike |-> 50]
    /\ search.targetSize = 60
    /\ ~Fits(50)
    /\ Fits(60)
    /\ search.resultQ = 49
    /\ ~search.fallback

\* configuration j reduces the image more than configuration k
MoreAggressive(j, k) ==
    /\ PngConfigValues[j].palette /\ PngConfigValues[k].palette
    /\ PngConfigValues[j].quality < PngConfigValues[k].quality
    /\ PngConfigValues[j].colours < PngConfigValues[k].colours

FittingConfigs == {k \in PngConfigs : search.pngSize[k] <= search.targetSize}

\* C31: for PNG with a targetSize the configurations are tried in order and
\* the first one whose size <= target is returned; when none fits, the
\* result is the encode of the most aggressive configuration of the
\* sequence.
C31_PngStandardPath ==
    (search.pc = "done" /\ search.format = "png"
        /\ search.path \in {"png", "plain"}) =>
        /\ search.resultConfig \in PngConfigs
        /\ search.resultSize = search.pngSize[search.resultConfig]
        /\ FittingConfigs # {} =>
              /\ search.resultConfig \in FittingConfigs
              /\ \A j \in FittingConfigs : search.resultConfig <= j
        /\ FittingConfigs = {} =>
              \A j \in PngConfigs : ~MoreAggressive(j, search.resultConfig)

EnteredExtreme ==
    search.pc = "extreme" \/ search.path = "extreme" \/ search.extremeFallback

\* C32: with a targetSize the extreme path is entered exactly when
\* targetSize/originalSize < 0.10; at a ratio of exactly 0.10 or above only
\* the standard path runs and no catalog strategy is evaluated; on the
\* extreme path the standard path runs only after the whole catalog has
\* settled and no outcome met the target.
C32_TargetPathRouting ==
    search.pc \notin {"idle", "start"} =>
        /\ EnteredExtreme <=> search.targetSize * 10 < search.originalSize
        /\ ~EnteredExtreme => search.chosen = NoChoice
        /\ (EnteredExtreme /\ search.pc \in {"standard", "searching"}) =>
              /\ search.extremeFallback
              /\ successfulOf(search.catalog, search.targetSize) = <<>>
        /\ (search.pc = "done" /\ EnteredExtreme /\ search.path # "extreme") =>
              successfulOf(search.catalog, search.targetSize) = <<>>

C32_Witness ==
    /\ search.pc = "done"
    /\ search.extremeFallback
    /\ search.path = "search"
    /\ search.catalog # <<>>
    /\ search.originalSize = 10 * search.targetSize + 1


\* the encode the file-output path selects for the inputs of s: the whole
\* loop of binarySearchQuality, or optimizePNG
RECURSIVE runSearch(_)
runSearch(st) ==
    IF searchContinues(st)
    THEN runSearch(searchStep(st,
                       compressWithQuality(st.enc, st.format, (st.minQ + st.maxQ) \div 2),
                       st.targetSize))
    ELSE st

fileSelection(s) ==
    IF s.format = "png"
    THEN LET k == optimizePNG(s.pngSize, s.targetSize)
         IN  [codec |-> "png ladder", quality |-> 0, config |-> k,
              size |-> s.pngSize[k]]
    ELSE LET f == runSearch([s EXCEPT !.minQ = MinQuality, !.maxQ = MaxQuality,
                                      !.bestQ = 0, !.bestSize = 0, !.attempts = 0,
                                      !.tested = <<>>])
         IN  IF f.bestQ # 0
             THEN [codec |-> "search", quality |-> f.bestQ, config |-> 0,
                   size |-> f.bestSize]
             ELSE [codec |-> "search", quality |-> MinQuality, config |-> 0,
                   size |-> compressWithQuality(s.enc, s.format, MinQuality)]

\* the encode a finished standard-path call has produced
selectionOf(s) ==
    [codec |-> CASE s.path = "png" -> "png ladder"
                 [] s.path = "search" -> "search"
                 [] OTHER -> "single encode",
     quality |-> s.resultQ, config |-> s.resultConfig, size |-> s.resultSize]

\* C40: for the same decoded source, format, options and targetSize, the
\* file-output target-size path and the buffer-output path select the same
\* encode parameters and produce the same bytes, for JPEG, WebP, AVIF and
\* PNG.
C40_FileAndBufferAgree ==
    (search.pc = "done" /\ search.path # "extreme") =>
        selectionOf(search) = fileSelection(search)

UnderBudget == Range(successfulOf(search.catalog, search.targetSize))

\* C14: the outcome the extreme path selects is one of the catalog outcomes
\* that succeeded with size <= target; under `size` none of them is smaller,
\* under `speed` none has a shorter processing time, under `quality` none
\* is larger.
C14_SelectionPolicy ==
    (search.pc = "done" /\ search.path = "extreme") =>
        /\ search.chosen \in UnderBudget
        /\ search.chosen \in Range(search.catalog)
        /\ search.chosen.success /\ search.chosen.size <= search.targetSize
        /\ search.resultSize = search.chosen.size
        /\ search.strategy = "size" =>
              \A r \in UnderBudget : search.chosen.size <= r.size
        /\ search.strategy = "speed" =>
              \A r \in UnderBudget : search.chosen.processingTime <= r.processingTime
        /\ search.strategy = "quality" =>
              \A r \in UnderBudget : search.chosen.size >= r.size

C14_Witness ==
    /\ search.pc = "done"
    /\ search.path = "extreme"
    /\ search.strategy = "speed"
    /\ search.targetSize = 40
    /\ Len(search.catalog) = 4
    /\ search.chosen.processingTime = 2
    /\ search.chosen.size = 13
    /\ \E r \in UnderBudget : r.size > 13

\* C15: under `auto`, and when strategy is absent or not a known name, the
\* largest under-budget outcome is selected when its size is at most 95% of
\* the target, and the smallest under-budget outcome otherwise.
C15_AutoPolicy ==
    (search.pc = "done" /\ search.path = "extreme"
        /\ search.strategy \in {"auto", "absent", "balanced"}) =>
        LET largest  == CHOOSE r \in UnderBudget : \A q \in UnderBudget : r.size >= q.size
            smallest == CHOOSE r \in UnderBudget : \A q \in UnderBudget : r.size <= q.size
        IN  /\ search.chosen \in UnderBudget
            /\ IF largest.size * 100 <= 95 * search.targetSize
               THEN search.chosen.size = largest.size
               ELSE search.chosen.size = smallest.size

C15_Witness ==
    /\ search.pc = "done"
    /\ search.path = "extreme"
    /\ search.strategy = "absent"
    /\ search.targetSize = 100
    /\ \E r \in UnderBudget : r.size = 96
    /\ search.chosen.size = 25

(***************************************************************************)
(* ImageCompressor.compress of a file path without targetSize:             *)
(* generateOutputPath, compressToFile and, for format auto, findBestFormat.*)
(* A path is a base name and an extension; `in` is the input's base name.  *)
(* job.outcome gives, per format, what the encoder does with the image.    *)
(***************************************************************************)
PngQualityThreshold == 90
QualifyingPercent == 95
UndefinedTextBytes == 9

AllFormats == {"avif", "webp", "jpeg", "png"}

\* getExtensionForFormat
getExtensionForFormat(format) ==
    CASE format = "avif" -> ".avif"
      [] format = "webp" -> ".webp"
      [] format = "jpeg" -> ".jpg"
      [] format = "png"  -> ".png"
      [] OTHER -> ".jpg"

\* getOutputExtension
getOutputExtension(inputPath, formatOption) ==
    IF formatOption # "auto" THEN getExtensionForFormat(formatOption)
                             ELSE inputPath.ext

\* generateOutputPath; options.output is absent, the input path itself or
\* another file path
generateOutputPath(inputPath, opts) ==
    CASE opts.output = "input" -> inputPath
      [] opts.output = "other" -> [base |-> "out", ext |-> ".jpg"]
      [] OTHER -> [base |-> IF opts.overwrite THEN inputPath.base
                                              ELSE "in_compressed",
                   ext  |-> getOutputExtension(inputPath, opts.format)]

\* the candidates findBestFormat races, in the order it pushes them
raceFormats(hasAlpha, quality) ==
    <<"avif", "webp">>
        \o (IF ~hasAlpha THEN <<"jpeg">> ELSE <<>>)
        \o (IF hasAlpha \/ quality > PngQualityThreshold THEN <<"png">> ELSE <<>>)

\* what the encoder yields for an outcome kind, for an original of `size`
encodedSize(kind, size) ==
    CASE kind = "small" -> (9 * size) \div 10
      [] kind = "edge"  -> (QualifyingPercent * size) \div 100
      [] kind = "large" -> size + 20

\* one settled candidate of the race
raceResult(format, kind, size) ==
    IF kind = "fail"
    THEN [format |-> format, error |-> TRUE, size |-> Infinity]
    ELSE [format |-> format, error |-> FALSE, size |-> encodedSize(kind, size)]

\* the filter of findBestFormat: !r.error && r.size < originalSize * 0.95
qualifies(r, originalSize) ==
    ~r.error /\ r.size * 100 < originalSize * QualifyingPercent

\* filter, sort, [0] || results[0]
bestOf(rs, originalSize) ==
    LET q == SortBy("size", SelectSeq(rs, LAMBDA r : qualifies(r, originalSize)))
    IN  IF q # <<>> THEN q[1] ELSE rs[1]

JobUnchanged ==
    UNCHANGED <<mgr, totalCores, options, threadCount, search, sem, tm, api, files,
                fileMeta, filesToProcess, chunks, pc, poolVars>>

\* findBestFormat: the race and the selection
FindBestFormat ==
    /\ job.pc = "start"
    /\ job.opts.format = "auto"
    /\ LET fmts == raceFormats(job.hasAlpha, job.quality)
           rs   == [k \in DOMAIN fmts |->
                       raceResult(fmts[k], job.outcome[fmts[k]], job.originalSize)]
           best == bestOf(rs, job.originalSize)
       IN  job' = [job EXCEPT !.pc = "selected", !.candidates = rs, !.best = best,
                              !.finalPath = [base |-> job.outputPath.base,
                                             ext  |-> getExtensionForFormat(best.format)]]
    /\ JobUnchanged

\* fs.writeFile(finalPath, result.buffer) and the stat that follows; a failed
\* candidate has no buffer, and writeFile of undefined either throws or
\* writes the text `undefined`, depending on the runtime
WriteBest ==
    /\ job.pc = "selected"
    /\ \E o \in {"writes", "throws"} :
          /\ ~job.best.error => o = "writes"
          /\ job' = IF o = "throws"
                    THEN [job EXCEPT !.pc = "failed"]
                    ELSE [job EXCEPT
                            !.pc = "done",
                            !.written = job.finalPath,
                            !.inputContent = IF job.finalPath = job.inputPath
                                             THEN "replaced" ELSE @,
                            !.compressedSize = IF job.best.error
                                               THEN UndefinedTextBytes
                                               ELSE job.best.size]
    /\ JobUnchanged

\* an explicit format: sharpInstance[format](options).toFile(finalPath); the
\* image library may refuse to write the file it is reading
EncodeToFile ==
    /\ job.pc = "start"
    /\ job.opts.format # "auto"
    /\ LET r == raceResult(job.opts.format, job.outcome[job.opts.format],
                           job.originalSize)
       IN  \E o \in {"writes", "throws"} :
              /\ r.error => o = "throws"
              /\ (~r.error /\ job.outputPath # job.inputPath) => o = "writes"
              /\ job' = IF o = "throws"
                        THEN [job EXCEPT !.pc = "failed", !.finalPath = job.outputPath]
                        ELSE [job EXCEPT
                                !.pc = "done",
                                !.finalPath = job.outputPath,
                                !.written = job.outputPath,
                                !.inputContent = IF job.outputPath = job.inputPath
                                                 THEN "replaced" ELSE @,
                                !.compressedSize = r.size]
    /\ JobUnchanged

(***************************************************************************)
(* Specification SpecJob: one compress of a file path without targetSize,  *)
(* for every outcome of every encoder and every output option.             *)
(***************************************************************************)
JobOriginalSize == 100

OutcomeKinds == {"fail", "small", "edge", "large"}
NoPath == [base |-> "none", ext |-> ""]
NoCandidate == [format |-> "none", error |-> TRUE, size |-> 0]

InitJob ==
    /\ totalCores = 1
    /\ options = [threads |-> 0, ultrafast |-> FALSE, forceThreads |-> FALSE]
    /\ threadCount = calculateOptimalThreads(totalCores, options)
    /\ files = <<>>
    /\ fileMeta = <<>>
    /\ filesToProcess = <<>>
    /\ chunks = <<>>
    /\ pc = "constructed"
    /\ workers = <<>>
    /\ wk = <<>>
    /\ port = <<>>
    /\ rcv = <<>>
    /\ promise = <<>>
    /\ terminated = {}
    /\ results = EmptyResults
    /\ thrown = NoError
    /\ search = SearchIdle
    /\ sem = SemIdle
    /\ tm = TmIdle
    /\ mgr = MgrIdle
    /\ api = ApiIdle
    /\ \E alpha \in BOOLEAN, q \in {85, 95}, ext \in {".jpg", ".png", ".avif"},
          fmt \in {"auto", "jpeg", "webp"}, ow \in BOOLEAN,
          out \in {"none", "input", "other"}, oc \in [AllFormats -> OutcomeKinds] :
          /\ fmt # "auto" => \A f \in AllFormats \ {fmt} : oc[f] = "fail"
          /\ LET inp == [base |-> "in", ext |-> ext]
                 o   == [format |-> fmt, overwrite |-> ow, output |-> out]
             IN  job = [pc |-> "start", hasAlpha |-> alpha, quality |-> q,
                        originalSize |-> JobOriginalSize, inputPath |-> inp,
                        opts |-> o, outcome |-> oc,
                        outputPath |-> generateOutputPath(inp, o),
                        candidates |-> <<>>, best |-> NoCandidate,
                        finalPath |-> NoPath, written |-> NoPath,
                        inputContent |-> "original", compressedSize |-> 0]

NextJob ==
    \/ FindBestFormat
    \/ WriteBest
    \/ EncodeToFile

SpecJob == InitJob /\ [][NextJob]_vars

\* C16: in the auto-format race and in the extreme-path catalog a candidate
\* whose encode failed is never the selected one while some candidate of the
\* set succeeded, and compress fails for the item only when every candidate
\* failed.
C16_RaceFailureSemantics ==
    /\ (job.pc \in {"selected", "done", "failed"} /\ job.opts.format = "auto") =>
          /\ (\E k \in DOMAIN job.candidates : ~job.candidates[k].error) =>
                ~job.best.error
          /\ job.pc = "failed" =>
                \A k \in DOMAIN job.candidates : job.candidates[k].error
    /\ (search.pc = "done" /\ search.path = "extreme") => search.chosen.success

\* C20: for every compress of a file path without targetSize whose produced
\* bytes are not smaller than the original, the content stored at the input
\* path after the call is the content before the call (also with overwrite
\* set or output equal to the input path), and no result with
\* compressedSize > originalSize is emitted.
C20_OriginalKeptWhenNotSmaller ==
    job.pc = "done" =>
        /\ job.compressedSize >= job.originalSize => job.inputContent = "original"
        /\ job.compressedSize <= job.originalSize

\* the candidates of the race that succeeded and are at least 5% smaller
\* than the original, the boundary size of exactly 95% included
AtLeastFivePercentSmaller ==
    {k \in DOMAIN job.candidates :
        /\ ~job.candidates[k].error
        /\ job.candidates[k].size * 100 <= job.originalSize * QualifyingPercent}

\* C33: findBestFormat returns the smallest successful candidate among
\* those at least 5% smaller than the original (size <= 0.95 x originalSize,
\* the boundary included); when no candidate qualifies it returns the first
\* candidate evaluated.
C33_SmallestQualifying ==
    (job.pc \in {"selected", "done"} /\ job.opts.format = "auto") =>
        IF AtLeastFivePercentSmaller # {}
        THEN /\ \E k \in AtLeastFivePercentSmaller : job.best = job.candidates[k]
             /\ \A k \in AtLeastFivePercentSmaller :
                    job.best.size <= job.candidates[k].size
        ELSE job.best = job.candidates[1]

(***************************************************************************)
(* The top-level compress(input, options) of imageCompressor.ts:           *)
(* validation, grouping, construction of the compressors, routing, and the *)
(* per-file work.  An option that is absent is the record `Absent`; a      *)
(* width of 0 is an absent width.  targetSize is absent, a number, or a    *)
(* string that is either a count with a unit or some other text.           *)
(***************************************************************************)
MultiThreadFiles == 4

Absent == [present |-> FALSE, value |-> 0]
Given(v) == [present |-> TRUE, value |-> v]

\* JavaScript truthiness of options.targetSize
targetTruthy(ts) ==
    CASE ts.type = "absent" -> FALSE
      [] ts.type = "number" -> ts.n # 0
      [] ts.type = "string" -> TRUE

unitBytes(unit) ==
    CASE unit = "B"  -> 1
      [] unit = "KB" -> 1024

\* targetSize.toString().match(/^(\d+(?:\.\d+)?)\s*(B|KB|MB|GB)?$/i) and the
\* byte count computed from the match: a number prints as its digits, with a
\* sign when negative
targetMatch(ts) ==
    CASE ts.type = "number" ->
            IF ts.n >= 0 THEN [ok |-> TRUE, bytes |-> ts.n]
                         ELSE [ok |-> FALSE, bytes |-> 0]
      [] ts.type = "string" ->
            IF ts.wellFormed THEN [ok |-> TRUE, bytes |-> ts.n * unitBytes(ts.unit)]
                             ELSE [ok |-> FALSE, bytes |-> 0]
      [] OTHER -> [ok |-> FALSE, bytes |-> 0]

\* the checks compress makes before any work, in order; "" when all pass
validationError(opts, resolved) ==
    IF opts.quality.present /\ (opts.quality.value < 1 \/ opts.quality.value > 100)
    THEN "Quality must be a number between 1 and 100"
    ELSE IF opts.threads.present /\ opts.threads.value < 1
    THEN "Threads must be a positive number"
    ELSE IF targetTruthy(opts.targetSize) /\ opts.targetSize.type = "string"
            /\ ~targetMatch(opts.targetSize).ok
    THEN "Target size must be in format"
    ELSE IF Len(resolved) = 0
    THEN "No files found matching the pattern"
    ELSE IF targetTruthy(opts.targetSize) /\ Len(resolved) = 1
            /\ targetMatch(opts.targetSize).ok
            /\ targetMatch(opts.targetSize).bytes >= resolved[1].size
    THEN "Target size must be smaller than original file"
    ELSE ""

\* groupFilesByType: the indices of the files of one group, in input order
RECURSIVE groupOf(_, _, _)
groupOf(resolved, kind, i) ==
    IF i > Len(resolved) THEN <<>>
    ELSE (IF resolved[i].kind = kind THEN <<i>> ELSE <<>>)
            \o groupOf(resolved, kind, i + 1)

\* the files compress hands to a compressor: images, then videos
workList(resolved) ==
    groupOf(resolved, "image", 1) \o groupOf(resolved, "video", 1)

\* the files are below the large-file threshold, so hasLargeFiles is false
useMultiThread(opts, resolved) ==
    \/ opts.multiThread
    \/ opts.forceThreads
    \/ (Len(resolved) >= MultiThreadFiles
            /\ ~(opts.parallel.present /\ opts.parallel.value # 0))

\* { ...ctor, ...call }.width: a key the call options lack keeps the
\* constructor's value
spreadWidth(ctorWidth, callWidth) ==
    IF callWidth # 0 THEN callWidth ELSE ctorWidth

\* the width the encode of an image sees: on the pool path the compressor is
\* built from the options processFiles was given; on the other path it is the
\* compressor built before keepDimensions was applied
effectiveWidth(a) ==
    IF a.useMultiThread THEN a.mergedOptions.width
    ELSE spreadWidth(a.compressorOptions.width, a.mergedOptions.width)

ApiUnchanged ==
    UNCHANGED <<mgr, totalCores, options, threadCount, search, sem, tm, job, files,
                fileMeta, filesToProcess, chunks, pc, poolVars>>

\* option validation, resolveFiles, validateSingleFileTarget
ApiValidate ==
    /\ api.pc = "called"
    /\ LET e == validationError(api.opts, api.files)
       IN  api' = IF e = "" THEN [api EXCEPT !.pc = "validated"]
                  ELSE [api EXCEPT !.pc = "thrown", !.thrown = e]
    /\ ApiUnchanged

\* grouping, construction of the ImageCompressor, routing decision, and the
\* removal of width and height under keepDimensions, in the code's order
ApiPrepare ==
    /\ api.pc = "validated"
    /\ api' = [api EXCEPT
                 !.pc = "processing",
                 !.compressorOptions = [width |-> api.opts.width],
                 !.useMultiThread = useMultiThread(api.opts, api.files),
                 !.mergedOptions = [width |-> IF api.opts.keepDimensions THEN 0
                                              ELSE api.opts.width],
                 !.queue = workList(api.files)]
    /\ ApiUnchanged

\* one file of the work list: applyTransformations (parseTargetSize throws
\* on a value that does not match), then the encode, which may fail; the
\* failure of an item is caught and recorded
ApiProcessFile ==
    /\ api.pc = "processing"
    /\ api.queue # <<>>
    /\ LET i  == Head(api.queue)
           ts == api.opts.targetSize
       IN  IF targetTruthy(ts) /\ ~targetMatch(ts).ok
           THEN api' = [api EXCEPT !.queue = Tail(@),
                                   !.errors = Append(@, i)]
           ELSE \E ok \in BOOLEAN :
                   api' = [api EXCEPT
                             !.queue = Tail(@),
                             !.encodes = Append(@,
                                  [file |-> i,
                                   resized |-> api.files[i].kind = "image"
                                               /\ effectiveWidth(api) # 0]),
                             !.processed = IF ok THEN @ + 1 ELSE @,
                             !.written = IF ok THEN @ \cup {i} ELSE @,
                             !.errors = IF ok THEN @ ELSE Append(@, i)]
    /\ ApiUnchanged

ApiReturn ==
    /\ api.pc = "processing"
    /\ api.queue = <<>>
    /\ api' = [api EXCEPT !.pc = "returned"]
    /\ ApiUnchanged

(***************************************************************************)
(* Specification SpecApi: one call of compress on every short list of      *)
(* files of every kind, with and without keepDimensions, width and         *)
(* targetSize.                                                             *)
(***************************************************************************)
MaxApiFiles == 2

ApiFileSizes == {100, 2000}
ApiFileValues == [kind : {"image", "video", "other"}, size : ApiFileSizes]
ApiFileLists == UNION {[1..n -> ApiFileValues] : n \in 0..MaxApiFiles}

TargetValues ==
    {[type |-> "absent"]}
        \cup {[type |-> "number", n |-> v] : v \in {0 - 5, 0, 50, 150}}
        \cup {[type |-> "string", wellFormed |-> TRUE, n |-> 50, unit |-> "B"],
              [type |-> "string", wellFormed |-> TRUE, n |-> 1, unit |-> "KB"],
              [type |-> "string", wellFormed |-> FALSE, n |-> 0, unit |-> "B"]}

InitApi ==
    /\ totalCores = 1
    /\ options = [threads |-> 0, ultrafast |-> FALSE, forceThreads |-> FALSE]
    /\ threadCount = calculateOptimalThreads(totalCores, options)
    /\ files = <<>>
    /\ fileMeta = <<>>
    /\ filesToProcess = <<>>
    /\ chunks = <<>>
    /\ pc = "constructed"
    /\ workers = <<>>
    /\ wk = <<>>
    /\ port = <<>>
    /\ rcv = <<>>
    /\ promise = <<>>
    /\ terminated = {}
    /\ results = EmptyResults
    /\ thrown = NoError
    /\ search = SearchIdle
    /\ sem = SemIdle
    /\ tm = TmIdle
    /\ mgr = MgrIdle
    /\ job = JobIdle
    /\ \E fl \in ApiFileLists, kd \in BOOLEAN, w \in {0, 50}, mt \in BOOLEAN,
          ts \in TargetValues, q \in {Absent, Given(101)},
          th \in {Absent, Given(0)} :
          api = [pc |-> "called",
                 opts |-> [keepDimensions |-> kd, width |-> w, multiThread |-> mt,
                           forceThreads |-> FALSE, parallel |-> Absent,
                           targetSize |-> ts, quality |-> q, threads |-> th],
                 files |-> fl,
                 compressorOptions |-> [width |-> 0],
                 mergedOptions |-> [width |-> w],
                 useMultiThread |-> FALSE,
                 queue |-> <<>>, encodes |-> <<>>, processed |-> 0,
                 written |-> {}, errors |-> <<>>, thrown |-> ""]

NextApi ==
    \/ ApiValidate
    \/ ApiPrepare
    \/ ApiProcessFile
    \/ ApiReturn

SpecApi == InitApi /\ [][NextApi]_vars

\* C17: with keepDimensions set, no encode performed for an item applies a
\* resize, whatever width the caller passed, on the worker-pool path and on
\* the non-pool path of compress.
C17_KeepDimensionsNoResize ==
    api.pc # "idle" =>
        (api.opts.keepDimensions =>
            \A k \in DOMAIN api.encodes : ~api.encodes[k].resized)

Listed(seq) == {seq[k] : k \in DOMAIN seq}

\* C18: every input file that is neither an image nor a video is one entry
\* of the errors list of the BatchResult compress returns, and the rest of
\* the batch is still processed.
C18_UnsupportedRecorded ==
    api.pc = "returned" =>
        \A i \in DOMAIN api.files :
            IF api.files[i].kind = "other"
            THEN i \in Listed(api.errors)
            ELSE i \in Listed(api.errors) \cup {api.encodes[k].file : k \in DOMAIN api.encodes}

\* a targetSize that is malformed, or not smaller than an image or video of
\* the input
BadTarget(a) ==
    /\ targetTruthy(a.opts.targetSize)
    /\ \/ ~targetMatch(a.opts.targetSize).ok
       \/ \E i \in DOMAIN a.files :
             /\ a.files[i].kind # "other"
             /\ targetMatch(a.opts.targetSize).bytes >= a.files[i].size

\* C19: when targetSize is malformed or not smaller than the original size
\* of an input file, compress throws before any file is compressed or any
\* output is written, for a numeric as well as a string targetSize and for
\* batches of more than one file.
C19_InvalidTargetSizeFirst ==
    (api.pc # "idle" /\ BadTarget(api)) =>
        /\ api.encodes = <<>>
        /\ api.written = {}
        /\ api.pc # "returned"

(***************************************************************************)
(* Specification SpecRoute: compress on lists of up to MaxRouteFiles       *)
(* files of one size, for every combination of multiThread, forceThreads   *)
(* and parallel.                                                           *)
(***************************************************************************)
MaxRouteFiles == 4

RouteFileLists ==
    UNION {[1..n -> [kind : {"image", "other"}, size : {2000}]] : n \in 0..MaxRouteFiles}

InitRoute ==
    /\ totalCores = 1
    /\ options = [threads |-> 0, ultrafast |-> FALSE, forceThreads |-> FALSE]
    /\ threadCount = calculateOptimalThreads(totalCores, options)
    /\ files = <<>>
    /\ fileMeta = <<>>
    /\ filesToProcess = <<>>
    /\ chunks = <<>>
    /\ pc = "constructed"
    /\ workers = <<>>
    /\ wk = <<>>
    /\ port = <<>>
    /\ rcv = <<>>
    /\ promise = <<>>
    /\ terminated = {}
    /\ results = EmptyResults
    /\ thrown = NoError
    /\ search = SearchIdle
    /\ sem = SemIdle
    /\ tm = TmIdle
    /\ mgr = MgrIdle
    /\ job = JobIdle
    /\ \E fl \in RouteFileLists, mt \in BOOLEAN, ft \in BOOLEAN,
          par \in {Absent, Given(0), Given(2)} :
          api = [pc |-> "called",
                 opts |-> [keepDimensions |-> FALSE, width |-> 0, multiThread |-> mt,
                           forceThreads |-> ft, parallel |-> par,
                           targetSize |-> [type |-> "absent"],
                           quality |-> Absent, threads |-> Absent],
                 files |-> fl,
                 compressorOptions |-> [width |-> 0],
                 mergedOptions |-> [width |-> 0],
                 useMultiThread |-> FALSE,
                 queue |-> <<>>, encodes |-> <<>>, processed |-> 0,
                 written |-> {}, errors |-> <<>>, thrown |-> ""]

SpecRoute == InitRoute /\ [][NextApi]_vars

\* C22: for every call of compress whose resolved file list has at least 4
\* files the multi-thread branch is taken, whatever the other options,
\* an explicit parallel included.
C22_AutoMultiThread ==
    (api.pc \in {"processing", "returned"} /\ Len(api.files) >= 4) =>
        api.useMultiThread

(***************************************************************************)
(* The bounded-concurrency path: processFiles (api.js) and                 *)
(* processFilesSequential (TypeScript API).  options.parallel is absent, a *)
(* non-numeric text or a number given in halves (3 halves = 1.5).  Each    *)
(* file's processFile runs to its first await when the list is mapped, and *)
(* a step is what runs between two awaits.                                 *)
(***************************************************************************)
DefaultParallel == 8

Abs(x) == IF x < 0 THEN 0 - x ELSE x

\* parseInt(options.parallel) || 8
parallelJs(par) ==
    IF par.kind # "number" THEN DefaultParallel
    ELSE LET t == (IF par.halves < 0 THEN -1 ELSE 1) * (Abs(par.halves) \div 2)
         IN  IF t = 0 THEN DefaultParallel ELSE t

\* Number.isFinite(c) && c > 0 ? Math.floor(c) : 8
parallelTs(par) ==
    IF par.kind # "number" THEN DefaultParallel
    ELSE IF par.halves > 0 THEN par.halves \div 2 ELSE DefaultParallel

maxConcurrentOf(variant, par) ==
    IF variant = "js" THEN parallelJs(par) ELSE parallelTs(par)

\* the test of the polling loop: the task waits while it is true
mustWaitOffByOne(currentlyProcessing, maxConcurrent) ==
    currentlyProcessing > maxConcurrent

mustWait(currentlyProcessing, maxConcurrent) ==
    currentlyProcessing >= maxConcurrent

\* files.map(processFile): each call runs up to its first await
RECURSIVE startAll(_, _, _)
startAll(st, i, n) ==
    IF i > n THEN st
    ELSE IF mustWait(st.currentlyProcessing, st.maxConcurrent)
    THEN startAll([st EXCEPT !.task[i] = "polling"], i + 1, n)
    ELSE startAll([st EXCEPT !.task[i] = "compressing",
                             !.currentlyProcessing = @ + 1], i + 1, n)

SemUnchanged ==
    UNCHANGED <<mgr, totalCores, options, threadCount, search, tm, job, api, files, fileMeta,
                filesToProcess, chunks, pc, poolVars>>

SemStart ==
    /\ sem.pc = "start"
    /\ sem' = startAll([sem EXCEPT !.pc = "running"], 1, Len(sem.task))
    /\ SemUnchanged

\* the 1 ms timer of a waiting task fires
SemPoll(i) ==
    /\ sem.pc = "running"
    /\ i \in DOMAIN sem.task
    /\ sem.task[i] = "polling"
    /\ sem' = IF mustWait(sem.currentlyProcessing, sem.maxConcurrent)
              THEN sem
              ELSE [sem EXCEPT !.task[i] = "compressing",
                               !.currentlyProcessing = @ + 1]
    /\ SemUnchanged

\* compressor.compress(file) settles: try / catch / finally
SemSettle(i) ==
    /\ sem.pc = "running"
    /\ i \in DOMAIN sem.task
    /\ sem.task[i] = "compressing"
    /\ \E ok \in BOOLEAN :
          sem' = [sem EXCEPT !.task[i] = "done",
                             !.currentlyProcessing = @ - 1,
                             !.processed = IF ok THEN @ + 1 ELSE @,
                             !.errors = IF ok THEN @ ELSE Append(@, i)]
    /\ SemUnchanged

\* Promise.all over the processFile promises resolves
SemReturn ==
    /\ sem.pc = "running"
    /\ \A i \in DOMAIN sem.task : sem.task[i] = "done"
    /\ sem' = [sem EXCEPT !.pc = "returned"]
    /\ SemUnchanged

(***************************************************************************)
(* Specification SpecSem: one call of the bounded-concurrency loop, for    *)
(* both variants and every options.parallel in the bound.                  *)
(***************************************************************************)
MaxSemFiles == 3
MaxParallelHalves == 5

ParallelValues ==
    {[kind |-> "absent", halves |-> 0], [kind |-> "text", halves |-> 0]}
    \cup [kind : {"number"}, halves : (0 - MaxParallelHalves)..MaxParallelHalves]

InitSem ==
    /\ totalCores = 1
    /\ options = [threads |-> 0, ultrafast |-> FALSE, forceThreads |-> FALSE]
    /\ threadCount = calculateOptimalThreads(totalCores, options)
    /\ files = <<>>
    /\ fileMeta = <<>>
    /\ filesToProcess = <<>>
    /\ chunks = <<>>
    /\ pc = "constructed"
    /\ workers = <<>>
    /\ wk = <<>>
    /\ port = <<>>
    /\ rcv = <<>>
    /\ promise = <<>>
    /\ terminated = {}
    /\ results = EmptyResults
    /\ thrown = NoError
    /\ search = SearchIdle
    /\ tm = TmIdle
    /\ mgr = MgrIdle
    /\ job = JobIdle
    /\ api = ApiIdle
    /\ \E v \in {"js", "ts"}, par \in ParallelValues, n \in 0..MaxSemFiles :
          sem = [pc |-> "start", variant |-> v, parallel |-> par,
                 maxConcurrent |-> maxConcurrentOf(v, par),
                 currentlyProcessing |-> 0,
                 task |-> [i \in 1..n |-> "new"],
                 processed |-> 0, errors |-> <<>>]

NextSem ==
    \/ SemStart
    \/ \E i \in 1..MaxSemFiles : SemPoll(i) \/ SemSettle(i)
    \/ SemReturn

SpecSem == InitSem /\ [][NextSem]_vars

InFlight == {i \in DOMAIN sem.task : sem.task[i] = "compressing"}

SemFairness ==
    /\ WF_vars(SemStart)
    /\ \A i \in 1..MaxSemFiles : WF_vars(SemPoll(i)) /\ WF_vars(SemSettle(i))
    /\ WF_vars(SemReturn)

SpecSemFair == InitSem /\ [][NextSem]_vars /\ SemFairness

\* C34: for every finite file list and every value of options.parallel
\* (positive, zero, negative, non-numeric), provided each compress call
\* settles and timers fire, every file eventually leaves the wait loop and
\* is counted as processed or recorded in errors, and the call returns; no
\* task polls forever.
C34_EveryCallReturns ==
    <>(/\ sem.pc = "returned"
       /\ \A i \in DOMAIN sem.task : sem.task[i] = "done"
       /\ sem.processed + Len(sem.errors) = Len(sem.task))

(***************************************************************************)
(* Specification SpecThreads: a ThreadManager constructed from every core  *)
(* count and every raw value of options.threads in the bound.              *)
(***************************************************************************)
ThreadCores == {1, 2, 3, 16, 22, 64}

ThreadsValues ==
    {[kind |-> "absent", halves |-> 0], [kind |-> "text", halves |-> 0]}
    \cup [kind : {"number", "numeral"}, halves : -4..(2 * MaxThreadsOption + 1)]

MaxResolutions == 3

QualityValues ==
    {[kind |-> "absent", halves |-> 0], [kind |-> "text", halves |-> 0],
     [kind |-> "number", halves |-> 0], [kind |-> "number", halves |-> 120],
     [kind |-> "numeral", halves |-> 121], [kind |-> "number", halves |-> 190]}

InitThreads ==
    /\ totalCores \in ThreadCores
    /\ options \in [threads : {0}, ultrafast : BOOLEAN, forceThreads : {FALSE}]
    /\ threadCount = calculateOptimalThreads(totalCores, options)
    /\ files = <<>>
    /\ fileMeta = <<>>
    /\ filesToProcess = <<>>
    /\ chunks = <<>>
    /\ pc = "constructed"
    /\ workers = <<>>
    /\ wk = <<>>
    /\ port = <<>>
    /\ rcv = <<>>
    /\ promise = <<>>
    /\ terminated = {}
    /\ results = EmptyResults
    /\ thrown = NoError
    /\ search = SearchIdle
    /\ sem = SemIdle
    /\ job = JobIdle
    /\ api = ApiIdle
    /\ mgr = MgrIdle
    /\ \E raw \in ThreadsValues, q \in QualityValues :
          tm = [pc |-> "new", threads |-> raw, quality |-> q]

\* new ThreadManager(options): the constructor calls calculateOptimalThreads
Construct ==
    /\ tm.pc = "new"
    /\ LET count == resolveThreadCount(totalCores, tm.threads, options.ultrafast)
           q     == resolveQuality(tm.quality)
       IN  tm' = [pc |-> "constructed",
                  threads |-> optionsAfterResolve(tm.threads, count),
                  quality |-> tm.quality,
                  threadCount |-> count,
                  resolvedQuality |-> q,
                  history |-> <<[threadCount |-> count, quality |-> q]>>]
    /\ UNCHANGED <<mgr, totalCores, options, threadCount, search, sem, job, api, files,
                   fileMeta, filesToProcess, chunks, pc, poolVars>>

\* a further call of calculateOptimalThreads on the same manager, and a
\* further read of the quality by its compressor
Recalculate ==
    /\ tm.pc = "constructed"
    /\ Len(tm.history) < MaxResolutions
    /\ LET count == resolveThreadCount(totalCores, tm.threads, options.ultrafast)
           q     == resolveQuality(tm.quality)
       IN  tm' = [tm EXCEPT !.threads = optionsAfterResolve(tm.threads, count),
                            !.threadCount = count,
                            !.resolvedQuality = q,
                            !.history = Append(@, [threadCount |-> count,
                                                   quality |-> q])]
    /\ UNCHANGED <<mgr, totalCores, options, threadCount, search, sem, job, api, files,
                   fileMeta, filesToProcess, chunks, pc, poolVars>>

\* a second ThreadManager and a second ImageCompressor built from the merged
\* options { ...this.options, ...options } of the first
ConstructFromMerged ==
    /\ tm.pc = "constructed"
    /\ Len(tm.history) < MaxResolutions
    /\ LET merged  == [threads |-> spreadValue(tm.threads, tm.threads),
                       quality |-> spreadValue(tm.quality, tm.quality)]
           count   == resolveThreadCount(totalCores, merged.threads, options.ultrafast)
           q       == resolveQuality(merged.quality)
       IN  tm' = [tm EXCEPT !.threads = optionsAfterResolve(merged.threads, count),
                            !.quality = merged.quality,
                            !.threadCount = count,
                            !.resolvedQuality = q,
                            !.history = Append(@, [threadCount |-> count,
                                                   quality |-> q])]
    /\ UNCHANGED <<mgr, totalCores, options, threadCount, search, sem, job, api, files,
                   fileMeta, filesToProcess, chunks, pc, poolVars>>

NextThreads ==
    \/ Construct
    \/ Recalculate
    \/ ConstructFromMerged

SpecThreads == InitThreads /\ [][NextThreads]_vars

Clamp(x) == Max(MinThreads, Min(x, MaxThreads))

\* C13: for every core count >= 1 and every options value the resolved
\* threadCount is an integer in [2,32]; it is clamp(ceil(cores*1.5)) with no
\* threads option, clamp(cores*2) under ultrafast, clamp(threads) with an
\* explicit threads option and clamp(ceil(threads*1.5)) with threads and
\* ultrafast.  For a threads value given in halves, count = clamp(threads)
\* reads 2*count = max(4, min(halves, 64)).
C13_ThreadCountPolicy ==
    tm.pc = "constructed" =>
        /\ ~tm.threadCount.nan
        /\ tm.threadCount.value \in MinThreads..MaxThreads
        /\ tm.threads.kind = "absent" =>
              tm.threadCount.value =
                  IF options.ultrafast THEN Clamp(totalCores * 2)
                                       ELSE Clamp(CeilTimesOneAndHalf(totalCores))
        /\ (tm.threads.kind \in {"number", "numeral"} /\ ~options.ultrafast) =>
              2 * tm.threadCount.value =
                  Max(2 * MinThreads, Min(tm.threads.halves, 2 * MaxThreads))
        /\ (tm.threads.kind \in {"number", "numeral"} /\ options.ultrafast) =>
              tm.threadCount.value = Clamp(CeilDiv(3 * tm.threads.halves, 4))

Resizes == <<80, 60, 50, 40, 30, 20, 15, 10>>

\* how many factors of the resize ladder are modelled
MaxResizeSteps == 2

ConcreteFormats == {"jpeg", "jpg", "png", "webp", "avif"}

\* determineOutputFormat with a format option that is given and not auto
determineOutputFormat(formatOption) ==
    IF formatOption = "jpg" THEN "jpeg" ELSE formatOption

Strategy(f, q, r) == [format |-> f, quality |-> q, resize |-> r]

presetsOf(fmt) ==
    CASE fmt = "avif" -> <<Strategy("avif", 20, 0), Strategy("avif", 25, 0),
                           Strategy("avif", 30, 0), Strategy("avif", 35, 0)>>
      [] fmt = "webp" -> <<Strategy("webp", 10, 0), Strategy("webp", 20, 0),
                           Strategy("webp", 30, 0)>>
      [] fmt = "jpeg" -> <<Strategy("jpeg", 10, 0), Strategy("jpeg", 20, 0),
                           Strategy("jpeg", 30, 0)>>
      [] fmt = "png"  -> <<Strategy("png", 10, 0), Strategy("png", 20, 0)>>
      [] OTHER -> <<>>

RECURSIVE resizeStrategies(_)
resizeStrategies(k) ==
    IF k = 0 THEN <<>>
    ELSE resizeStrategies(k - 1)
            \o <<Strategy("avif", 30, Resizes[k]), Strategy("webp", 40, Resizes[k]),
                 Strategy("jpeg", 50, Resizes[k])>>

\* generateCompressionStrategies(keepDims, preferredFormat) for a concrete
\* preferred format
generateCompressionStrategies(keepDims, preferredFormat) ==
    presetsOf(preferredFormat)
        \o (IF keepDims THEN <<>> ELSE resizeStrategies(MaxResizeSteps))

\* the settled outcomes of testStrategy over the catalog
strategyResults(strategies, fits, targetSize) ==
    [k \in DOMAIN strategies |->
        [success |-> TRUE,
         size |-> IF fits[k] THEN targetSize - k ELSE targetSize + 1,
         processingTime |-> k,
         strategy |-> k]]

\* compressToTargetSizeFile
TargetFormatRoute ==
    /\ search.pc = "route"
    /\ search' = [search EXCEPT
                    !.pc = IF isExtremeRatio(search.targetSize, search.originalSize)
                           THEN "catalog" ELSE "encode"]
    /\ SearchUnchanged

\* extremeCompressionParallel: the chosen outcome is written at the output
\* path with its extension replaced by that of the chosen strategy's format
TargetFormatExtreme ==
    /\ search.pc = "catalog"
    /\ LET strategies == generateCompressionStrategies(search.keepDims, search.format)
       IN  \E fits \in [DOMAIN strategies -> BOOLEAN] :
             LET successful == successfulOf(
                     strategyResults(strategies, fits, search.targetSize),
                     search.targetSize)
             IN  search' =
                   IF Len(successful) > 0
                   THEN LET chosen == selectBestResult(successful,
                                          strategyOrAuto(search.strategy),
                                          search.targetSize)
                            fmt == strategies[chosen.strategy].format
                        IN  [search EXCEPT
                               !.pc = "written", !.path = "extreme",
                               !.chosen = strategies[chosen.strategy],
                               !.writtenFormat = fmt,
                               !.writtenExt = getExtensionForFormat(fmt)]
                   ELSE [search EXCEPT !.pc = "encode"]
    /\ SearchUnchanged

\* standardCompression: the encode is of `format`, written at the output path
TargetFormatStandard ==
    /\ search.pc = "encode"
    /\ search' = [search EXCEPT !.pc = "written", !.path = "standard",
                                !.writtenFormat = search.format,
                                !.writtenExt = search.outputExt]
    /\ SearchUnchanged

(***************************************************************************)
(* Specification SpecFormat: every concrete format option, with and        *)
(* without keepDimensions, every strategy, both ratios.                    *)
(***************************************************************************)
NoStrategy == Strategy("none", 0, 0)

InitFormat ==
    /\ totalCores = 1
    /\ options = [threads |-> 0, ultrafast |-> FALSE, forceThreads |-> FALSE]
    /\ threadCount = calculateOptimalThreads(totalCores, options)
    /\ files = <<>>
    /\ fileMeta = <<>>
    /\ filesToProcess = <<>>
    /\ chunks = <<>>
    /\ pc = "constructed"
    /\ workers = <<>>
    /\ wk = <<>>
    /\ port = <<>>
    /\ rcv = <<>>
    /\ promise = <<>>
    /\ terminated = {}
    /\ results = EmptyResults
    /\ thrown = NoError
    /\ sem = SemIdle
    /\ tm = TmIdle
    /\ mgr = MgrIdle
    /\ job = JobIdle
    /\ api = ApiIdle
    /\ \E fo \in ConcreteFormats, kd \in BOOLEAN, extreme \in BOOLEAN,
          strat \in {"auto", "size", "quality", "speed", "absent"},
          inExt \in {".jpg", ".png"} :
          search = [pc |-> "route",
                    formatOption |-> fo,
                    format |-> determineOutputFormat(fo),
                    outputExt |-> getOutputExtension([base |-> "in", ext |-> inExt], fo),
                    keepDims |-> kd,
                    strategy |-> strat,
                    targetSize |-> MaxTargetSize,
                    originalSize |-> IF extreme THEN 10 * MaxTargetSize + 1
                                                ELSE 10 * MaxTargetSize,
                    path |-> "none", chosen |-> NoStrategy,
                    writtenFormat |-> "none", writtenExt |-> "none"]

NextFormat ==
    \/ TargetFormatRoute
    \/ TargetFormatExtreme
    \/ TargetFormatStandard

SpecFormat == InitFormat /\ [][NextFormat]_vars

\* C39: when options.format names a concrete format (not auto) and a
\* targetSize is given, the encode that is written uses exactly that format
\* and the output extension matches it, on the standard path and on the
\* extreme path, catalog entries that carry a resize factor included.
C39_ExplicitFormatHonoured ==
    search.pc = "written" =>
        /\ search.writtenFormat = determineOutputFormat(search.formatOption)
        /\ search.writtenExt = getExtensionForFormat(search.writtenFormat)

(***************************************************************************)
(* Two processFiles calls on one ThreadManager that overlap in time.  The  *)
(* manager keeps one list, this.workers: createWorker pushes every handle  *)
(* onto it, and cleanup() calls terminate() on every handle of the list    *)
(* and, once the terminations are awaited, replaces the list by [].  Each  *)
(* call takes the pool route (4 files or more).  A handle is a number; the *)
(* handles of call c are BaseHandle(c)+1 .. BaseHandle(c)+n.               *)
(***************************************************************************)
MaxOverlapWorkers == 2

Calls == {1, 2}

BaseHandle(c) == (c - 1) * MaxOverlapWorkers

Handles == 1..(2 * MaxOverlapWorkers)

NoWorker == [owner |-> 0, state |-> "none", promise |-> "none", terminatedBy |-> 0]

\* cleanup: the handles terminate() is called on
cleanupTargets(list, spawned) == Range(list)

OverlapUnchanged ==
    UNCHANGED <<totalCores, options, threadCount, search, sem, tm, job, api, files,
                fileMeta, filesToProcess, chunks, pc, poolVars>>

\* processFiles up to the await of executeWorkers: chunks.map(createWorker)
\* runs without an await, every handle is pushed onto this.workers
OverlapStart(c) ==
    /\ mgr.pc = "shared"
    /\ mgr.call[c].pc = "new"
    /\ \E n \in 1..MaxOverlapWorkers :
          LET hs == [k \in 1..n |-> BaseHandle(c) + k]
          IN  mgr' = [mgr EXCEPT
                        !.workers = @ \o hs,
                        !.call[c] = [pc |-> "awaiting", spawned |-> Range(hs)],
                        !.worker = [h \in Handles |->
                                      IF h \in Range(hs)
                                      THEN [owner |-> c, state |-> "running",
                                            promise |-> "pending", terminatedBy |-> 0]
                                      ELSE @[h]]]
    /\ OverlapUnchanged

\* a worker ends by itself: `complete` resolves its promise, a fault
\* (worker_error, error event, nonzero exit) rejects it
OverlapWorkerEnds(h) ==
    /\ mgr.pc = "shared"
    /\ mgr.worker[h].state = "running"
    /\ \E ok \in BOOLEAN :
          mgr' = [mgr EXCEPT
                    !.worker[h].state = "exited",
                    !.worker[h].promise = IF ok THEN "resolved" ELSE "rejected"]
    /\ OverlapUnchanged

\* Promise.all of the call settles; the finally block calls cleanup(), which
\* calls terminate() on the handles of this.workers: a running worker exits
\* with code 1 and its exit handler rejects its promise
OverlapSettle(c) ==
    /\ mgr.pc = "shared"
    /\ mgr.call[c].pc = "awaiting"
    /\ LET ps == [h \in mgr.call[c].spawned |-> mgr.worker[h].promise]
           hit == {h \in cleanupTargets(mgr.workers, mgr.call[c].spawned) :
                      mgr.worker[h].state = "running"}
       IN  /\ allResolved(ps) \/ \E h \in DOMAIN ps : ps[h] = "rejected"
           /\ mgr' = [mgr EXCEPT
                        !.call[c].pc = IF allResolved(ps) THEN "cleanup returns"
                                                          ELSE "cleanup throws",
                        !.worker = [h \in Handles |->
                                      IF h \in hit
                                      THEN [@[h] EXCEPT !.state = "exited",
                                                        !.promise = "rejected",
                                                        !.terminatedBy = c]
                                      ELSE @[h]]]
    /\ OverlapUnchanged

\* the terminations are awaited, this.workers = [], processFiles returns or
\* throws
OverlapCleanupDone(c) ==
    /\ mgr.pc = "shared"
    /\ mgr.call[c].pc \in {"cleanup returns", "cleanup throws"}
    /\ mgr' = [mgr EXCEPT
                 !.workers = <<>>,
                 !.call[c].pc = IF @ = "cleanup returns" THEN "returned" ELSE "thrown"]
    /\ OverlapUnchanged

(***************************************************************************)
(* Specification SpecOverlap: two calls on one manager, each spawning up   *)
(* to MaxOverlapWorkers workers, started and settled in every order.       *)
(***************************************************************************)
InitOverlap ==
    /\ totalCores = 1
    /\ options = [threads |-> 0, ultrafast |-> FALSE, forceThreads |-> FALSE]
    /\ threadCount = calculateOptimalThreads(totalCores, options)
    /\ files = <<>>
    /\ fileMeta = <<>>
    /\ filesToProcess = <<>>
    /\ chunks = <<>>
    /\ pc = "constructed"
    /\ workers = <<>>
    /\ wk = <<>>
    /\ port = <<>>
    /\ rcv = <<>>
    /\ promise = <<>>
    /\ terminated = {}
    /\ results = EmptyResults
    /\ thrown = NoError
    /\ search = SearchIdle
    /\ sem = SemIdle
    /\ tm = TmIdle
    /\ job = JobIdle
    /\ api = ApiIdle
    /\ mgr = [pc |-> "shared",
              workers |-> <<>>,
              call |-> [c \in Calls |-> [pc |-> "new", spawned |-> {}]],
              worker |-> [h \in Handles |-> NoWorker]]

NextOverlap ==
    \/ \E c \in Calls : OverlapStart(c) \/ OverlapSettle(c) \/ OverlapCleanupDone(c)
    \/ \E h \in Handles : OverlapWorkerEnds(h)

SpecOverlap == InitOverlap /\ [][NextOverlap]_vars

\* C37: when two processFiles calls on the same ThreadManager overlap in
\* time, the cleanup of the call that settles first terminates only the
\* workers that call spawned and never a worker of the call still running;
\* after any call settles the manager holds no handle of a worker that call
\* spawned.
C37_WorkerIsolation ==
    mgr.pc = "shared" =>
        /\ \A h \in Handles :
              mgr.worker[h].terminatedBy # 0 =>
                  mgr.worker[h].terminatedBy = mgr.worker[h].owner
        /\ \A c \in Calls :
              mgr.call[c].pc \in {"returned", "thrown"} =>
                  Range(mgr.workers) \cap mgr.call[c].spawned = {}

(***************************************************************************)
(* Specification SpecChunk: a ThreadManager is constructed from arbitrary  *)
(* options and chunkFiles is applied to an arbitrary task list.            *)
(***************************************************************************)
InitChunk ==
    /\ totalCores \in 1..MaxCores
    /\ options \in {o \in OptionValues : ~o.forceThreads}
    /\ threadCount = calculateOptimalThreads(totalCores, options)
    /\ \E n \in 0..MaxChunkFiles : files = FileList(n)
    /\ fileMeta = [i \in DOMAIN files |-> SmallImage]
    /\ filesToProcess = <<>>
    /\ chunks = <<>>
    /\ pc = "constructed"
    /\ PoolIdle

ChunkFiles ==
    /\ pc = "constructed"
    /\ chunks' = chunkFiles(files, threadCount)
    /\ pc' = "chunked"
    /\ UNCHANGED <<tmVars, files, fileMeta, filesToProcess, poolVars>>

NextChunk == ChunkFiles

SpecChunk == InitChunk /\ [][NextChunk]_vars

\* C1: concatenating the chunks' task lists in chunk order gives exactly the
\* input list (each task in exactly one chunk, once, in its original order),
\* and the number of chunks never exceeds threadCount, for threadCount in [2,32].
ChunkTaskLists == [i \in 1..Len(chunks) |-> chunks[i].files]

C1_PartitionExhaustive ==
    pc = "chunked" =>
        /\ threadCount \in MinThreads..MaxThreads
        /\ Concat(ChunkTaskLists) = files
        /\ Len(chunks) <= threadCount

C1_Witness ==
    /\ pc = "chunked"
    /\ Len(files) = 5
    /\ threadCount = 2
    /\ Len(chunks) = 2
    /\ Len(chunks[2].files) = 2

\* C26: chunkFiles produces no empty chunk; every chunk except the last holds
\* exactly ceil(total/threadCount) tasks and the last holds between 1 and
\* ceil(total/threadCount) tasks; the workerIndex values are 0,1,2,... in
\* chunk order.
C26_ChunkSizes ==
    pc = "chunked" =>
        LET per == CeilDiv(Len(files), threadCount)
        IN  \A k \in DOMAIN chunks :
               /\ Len(chunks[k].files) >= 1
               /\ Len(chunks[k].files) <= per
               /\ k < Len(chunks) => Len(chunks[k].files) = per
               /\ chunks[k].workerIndex = k - 1

C26_Witness ==
    /\ pc = "chunked"
    /\ Len(files) = 5
    /\ threadCount = 3
    /\ Len(chunks) = 3
    /\ Len(chunks[1].files) = 2
    /\ Len(chunks[3].files) = 1
    /\ chunks[3].workerIndex = 2

====
